---- MODULE Spec2Model ----
(***************************************************************************)
(* A model of MemoryGraph: the long-term memory manager over the vector    *)
(* index, and the six-stage turn workflow of the memory agent.             *)
(*                                                                         *)
(* Conventions                                                             *)
(*   - Python str is a TLA+ string; f-strings and ','.join are string      *)
(*     concatenation (\o), so two different inputs may yield one string.   *)
(*   - Python None (for an optional str) is the string None; an optional   *)
(*     number is <<>> (None) or <<n>>.                                     *)
(*   - Reals are counted in tenths: importance 0.8 is 8, the similarity    *)
(*     threshold 0.2 is 2, a cosine distance lies in 0..20 and             *)
(*     similarity = 10 - distance.                                         *)
(*   - A dict is a function from its keys; a key that the code removes is  *)
(*     absent from the domain.                                             *)
(***************************************************************************)
EXTENDS Integers, Sequences, FiniteSets, TLC

VARIABLES
    collections,   \* the vector index: collection name -> records, in insertion order
    stored,        \* history: for each id issued, the identity and arguments of its store call
    now,           \* time.time()
    last,          \* the most recent manager call and what it returned to its caller
    pc,            \* workflow: the node about to run ("idle" between turns)
    state,         \* workflow: the AgentState of the turn
    visited,       \* workflow: the nodes run in this turn, in order
    result,        \* workflow: what run() returned for the last turn
    shortTerm,     \* the agent's short-term buffer
    turns,         \* number of turns started
    failures,      \* history: the stages whose work failed in this turn
    registries,    \* the session registry instances: instance -> its users and sessions maps
    files,         \* the registry's data directory: the persisted users and sessions maps
    issued         \* history: how many user ids and session ids have been generated

vars == <<collections, stored, now, last, pc, state, visited, result, shortTerm, turns,
          failures, registries, files, issued>>

None == "<None>"
NoNumber == <<>>
Some(n) == <<n>>

EmptyDict == [k \in {} |-> k]
OptionalKey(key, value) == IF value = None THEN EmptyDict ELSE (key :> value)
NoTurn == EmptyDict      \* run() has not returned for the turn

PyStr(s) == [kind |-> "str", val |-> s]
PyList(l) == [kind |-> "list", val |-> l]
SameValue(x, y) == x.kind = y.kind /\ x.val = y.val

Min(a, b) == IF a < b THEN a ELSE b
Max(a, b) == IF a > b THEN a ELSE b

(***************************************************************************)
(* Bounds of the model.                                                    *)
(***************************************************************************)
MaxStores == 2        \* stored memories per behaviour of the isolation specification
MaxIndexed == 2       \* stored memories per behaviour of the retrieval specification
MaxRecords == 2       \* stored memories per behaviour of the store specification
MaxRoundTrips == 1    \* stored memories per behaviour of the round-trip specification
MaxTime == 1          \* clock ticks per behaviour of the round-trip specification
MaxTurns == 2         \* workflow turns per behaviour
MaxUsers == 2         \* users created per behaviour of the registry specification
MaxSessions == 2      \* sessions created per behaviour of the registry specification
MaxHours == 1         \* hours that pass per behaviour of the registry specification
MaxBuffered == 2      \* messages added to the buffer in the analyzer specification
MaxMessages == 12     \* messages added to an empty buffer in the buffer specification
MaxChunkSize == 6      \* largest chunk size passed to chunk_text
MaxChunks == 16        \* iterations of the chunking loop that are followed
MaxEach == 1          \* direct stores, turns, users created, sessions created of
                      \* one behaviour of the persistence, durability and writers
                      \* specifications

(***************************************************************************)
(* Configuration (config.py).                                              *)
(***************************************************************************)
CHROMA_COLLECTION_NAME == "memory_collection"
CHUNK_SIZE == 1000
CHUNK_OVERLAP == 200
SHORT_TERM_MEMORY_SIZE == 10
LONG_TERM_MEMORY_THRESHOLD == 2
MAX_LONG_TERM_MEMORIES == 5

(***************************************************************************)
(* Namespace derivation (VectorStore.__init__).  `if user_id and           *)
(* session_id` is Python truthiness: None and "" are both false.           *)
(***************************************************************************)
Truthy(s) == s # None /\ s # ""

\* a derivation that also names a collection after a session without a user
VectorStoreNameBySession(collection_name, user_id, session_id) ==
    IF Truthy(user_id) /\ Truthy(session_id)
        THEN "user_" \o user_id \o "_session_" \o session_id
    ELSE IF Truthy(user_id) THEN "user_" \o user_id \o "_global"
    ELSE IF Truthy(session_id) THEN "session_" \o session_id
    ELSE IF Truthy(collection_name) THEN collection_name
    ELSE CHROMA_COLLECTION_NAME

\* VectorStore.__init__: self.collection_name
VectorStoreName(collection_name, user_id, session_id) ==
    IF Truthy(user_id) /\ Truthy(session_id)
        THEN "user_" \o user_id \o "_session_" \o session_id
    ELSE IF Truthy(user_id) THEN "user_" \o user_id \o "_global"
    ELSE IF Truthy(collection_name) THEN collection_name
    ELSE CHROMA_COLLECTION_NAME

\* the store that MemoryAgent builds: VectorStore(user_id=..., session_id=...)
CollectionName(user_id, session_id) == VectorStoreName(None, user_id, session_id)

\* SessionManager.generate_collection_name
generate_collection_name(user_id, session_id) ==
    "user_" \o user_id \o "_session_" \o session_id

(***************************************************************************)
(* Identities.  An identity is <<user_id, session_id>>.                    *)
(***************************************************************************)
UserIds == {"a", "a_session_b"}
SessionIds == {"c", "b_session_c"}
Identities == UserIds \X SessionIds
OneIdentity == {<<"a", "c">>}
AgentIdentity == <<None, None>>      \* create_memory_workflow() without ids

NameOf(p) == CollectionName(p[1], p[2])
Names == {NameOf(p) : p \in Identities \cup {AgentIdentity}}

(***************************************************************************)
(* The embedding gateway and the index's metric, as an opaque but fixed    *)
(* function of the two texts: every text has a position, and the cosine    *)
(* distance (in tenths) depends on how far apart two positions are.  A     *)
(* text is at distance 0 from itself.                                      *)
(***************************************************************************)
Position(text) ==
    CASE text = "q1" -> 0
      [] text = "c1" -> 1
      [] text = "c2" -> 2
      [] text = "c3" -> 3
      [] text = "fact" -> 4
      [] text = "preference" -> 5
      [] text = "q2" -> 6
      [] text = "hi" -> 8
      [] text = "I Like tea" -> 9
      [] text = "i am important" -> 12
      [] OTHER -> 7

DistanceAt(gap) ==
    CASE gap = 0 -> 0
      [] gap = 1 -> 3
      [] gap = 2 -> 8
      [] gap = 3 -> 9
      [] gap = 4 -> 12
      [] OTHER -> 15

Distance(query, text) ==
    IF query = text THEN 0
    ELSE LET gap == Position(query) - Position(text)
         IN  DistanceAt(IF gap < 0 THEN 0 - gap ELSE gap)

Similarity(distance) == 10 - distance

(***************************************************************************)
(* Outcomes of the calls a manager operation makes to its collaborators:   *)
(* "error" is the embedding call or the index call raising (every handler  *)
(* treats the two alike).                                                  *)
(***************************************************************************)
CallOutcomes == {"ok", "error"}
ClearOutcomes == {"ok", "delete_collection_error", "create_collection_error"}

(***************************************************************************)
(* LongTermMemoryManager.store_memory and VectorStore.add_memory.          *)
(***************************************************************************)
\* a clamp that forgets the lower bound: min(1.0, importance)
ClampUpperOnly(importance) == Min(10, importance)

Clamp(importance) == Max(0, Min(10, importance))

RECURSIVE JoinTags(_)
JoinTags(tags) ==
    IF tags = <<>> THEN ""
    ELSE IF Len(tags) = 1 THEN tags[1]
    ELSE tags[1] \o "," \o JoinTags(Tail(tags))

\* The metadata handed to the index: the memory's fields without content,
\* tags joined into one string, None values removed, timestamp added.
StoreMetadata(args, t) ==
    [memory_type |-> args.memory_type,
     importance |-> Clamp(args.importance),
     created_at |-> t,
     last_accessed |-> t,
     access_count |-> 0,
     tags |-> PyStr(JoinTags(args.tags)),
     timestamp |-> t]
    @@ OptionalKey("context", args.context)
    @@ OptionalKey("source", args.source)

\* except Exception: log and raise (both in add_memory and in store_memory)
StoreRaises(outcome) == outcome # "ok"

NewId == Len(stored) + 1

\* a store call that returns to its caller even when it failed
StoreReturnSwallowing(outcome, id) ==
    [call |-> outcome, raised |-> FALSE, id |-> IF outcome = "ok" THEN id ELSE 0]

\* what a store call gives its caller: the new id, or the exception
StoreReturn(outcome, id) ==
    [call |-> outcome, raised |-> StoreRaises(outcome),
     id |-> IF outcome = "ok" THEN id ELSE 0]

\* ids are issued in order: uuid4 never repeats one
IndexRecord(id, text, metadata) == [id |-> id, text |-> text, metadata |-> metadata]

\* an index that keeps only the newest record of a collection
add_memoryEvicting(name, text, metadata) ==
    collections' = [collections EXCEPT ![name] = <<IndexRecord(NewId, text, metadata)>>]

add_memory(name, text, metadata) ==
    collections' = [collections EXCEPT ![name] = Append(@, IndexRecord(NewId, text, metadata))]

\* a store whose index write is kept although the call fails
store_memoryWritesThenFails(identity, args, outcome) ==
    /\ add_memory(NameOf(identity), args.content, StoreMetadata(args, now))
    /\ stored' = Append(stored, [identity |-> identity, args |-> args])
    /\ last' = [op |-> "store", identity |-> identity, args |-> args]
               @@ StoreReturn(outcome, NewId)

store_memory(identity, args, outcome) ==
    /\ IF outcome = "ok"
         THEN /\ add_memory(NameOf(identity), args.content, StoreMetadata(args, now))
              /\ stored' = Append(stored, [identity |-> identity, args |-> args])
         ELSE UNCHANGED <<collections, stored>>
    /\ last' = [op |-> "store", identity |-> identity, args |-> args]
               @@ StoreReturn(outcome, NewId)

StoreArgs(content, memory_type, importance, tags, context, source) ==
    [content |-> content, memory_type |-> memory_type, importance |-> importance,
     tags |-> tags, context |-> context, source |-> source]

store_conversation_summary(identity, summary, conversation_context, importance, outcome) ==
    store_memory(identity,
                 StoreArgs(summary, "experience", importance, <<"conversation", "summary">>,
                           conversation_context, "conversation_summary"),
                 outcome)

store_user_preference(identity, preference, context, outcome) ==
    store_memory(identity,
                 StoreArgs(preference, "preference", 8, <<"preference", "user">>,
                           context, "user_preference"),
                 outcome)

store_fact(identity, fact, context, importance, outcome) ==
    store_memory(identity,
                 StoreArgs(fact, "fact", importance, <<"fact", "information">>,
                           context, "factual_information"),
                 outcome)

(***************************************************************************)
(* The index query: the n nearest records, nearest first.  Records at the  *)
(* same distance come in an order the index chooses.                       *)
(***************************************************************************)
RECURSIVE Rankings(_, _)
Rankings(records, query) ==
    IF records = {} THEN {<<>>}
    ELSE LET nearest == {r \in records :
                            \A o \in records : Distance(query, r.text) <= Distance(query, o.text)}
         IN  UNION {{<<r>> \o rest : rest \in Rankings(records \ {r}, query)} : r \in nearest}

Range(seq) == {seq[i] : i \in 1..Len(seq)}
Take(seq, n) == SubSeq(seq, 1, Min(Max(n, 0), Len(seq)))

\* collection.query(query_embeddings, n_results), given the index's full ranking
IndexQuery(ranking, n_results) == Take(ranking, n_results)

\* a test that drops a candidate exactly at the threshold
SearchKeepsAbove(similarity, threshold) ==
    threshold = NoNumber \/ similarity > threshold[1]

\* `if threshold is not None and similarity < threshold: continue`
SearchKeeps(similarity, threshold) ==
    threshold = NoNumber \/ ~(similarity < threshold[1])

\* VectorStore.search_memories on a query that succeeded
search_memories(ranking, query, n_results, threshold) ==
    LET returned == IndexQuery(ranking, n_results)
        Found(r) == [text |-> r.text, metadata |-> r.metadata,
                     similarity |-> Similarity(Distance(query, r.text)), id |-> r.id]
        Kept(m) == SearchKeeps(m.similarity, threshold)
    IN  SelectSeq([i \in 1..Len(returned) |-> Found(returned[i])], Kept)

(***************************************************************************)
(* LongTermMemoryManager.retrieve_memories.                                *)
(***************************************************************************)
\* `max_results = max_results or self.max_memories`: None and 0 are both false
EffectiveMax(max_results) ==
    IF max_results # NoNumber /\ max_results[1] # 0
        THEN max_results[1] ELSE MAX_LONG_TERM_MEMORIES

\* `if memory_type and ...: continue` and `if min_importance and ...: continue`
PassesFilters(metadata, memory_type, min_importance) ==
    /\ ~(Truthy(memory_type) /\ metadata.memory_type # memory_type)
    /\ ~(min_importance # NoNumber /\ min_importance[1] # 0
           /\ metadata.importance < min_importance[1])

\* {'id', 'content', 'similarity', **metadata} with the access fields updated
ResultEntry(memory, t) ==
    [memory.metadata EXCEPT !.last_accessed = t, !.access_count = @ + 1]
    @@ [id |-> memory.id, content |-> memory.text, similarity |-> memory.similarity]

\* a handler that logs and raises instead of returning []
RetrieveOnErrorReraise == [result |-> <<>>, raised |-> TRUE]

\* except Exception: log and return []
RetrieveOnError == [result |-> <<>>, raised |-> FALSE]

\* the embedding call or the index query of one search raises
QueryFails(outcome) == outcome # "ok"

\* the loop over the candidates: a passing one is appended, and the loop stops
\* once the list (never empty at that test) has max_results entries
FilterLoop(memories, memory_type, min_importance, max_results) ==
    LET Pass(m) == PassesFilters(m.metadata, memory_type, min_importance)
    IN  Take(SelectSeq(memories, Pass), Max(1, max_results))

\* a retrieve without the second, threshold-free search
FallbackNever(first) == FALSE

\* a retrieve that always makes the second search
FallbackAlways(first) == TRUE

\* `if not memories:` after the thresholded search
FallbackFires(first) == first = <<>>

retrieve_memories(ranking, query, memory_type, max_results, min_importance, o1, o2, t) ==
    LET m == EffectiveMax(max_results)
        firstFails == QueryFails(o1)
        first == search_memories(ranking, query, m * 2, Some(LONG_TERM_MEMORY_THRESHOLD))
        fallback == ~firstFails /\ FallbackFires(first)
        secondFails == QueryFails(o2)
        second == search_memories(ranking, query, m, NoNumber)
        memories == IF fallback THEN second ELSE first
        filtered == FilterLoop(memories, memory_type, min_importance, m)
        calls == IF fallback THEN <<o1, o2>> ELSE <<o1>>
    IN  IF firstFails \/ (fallback /\ secondFails)
          THEN RetrieveOnError @@
               [calls |-> calls, failed |-> TRUE, fell_back |-> fallback,
                candidates |-> <<>>]
          ELSE [result |-> [i \in 1..Len(filtered) |-> ResultEntry(filtered[i], t)],
                raised |-> FALSE, calls |-> calls, failed |-> FALSE,
                fell_back |-> fallback,
                candidates |-> [i \in 1..Len(memories) |-> memories[i].id]]

flowVars == <<pc, state, visited, result, shortTerm, turns, failures>>
registryVars == <<registries, files, issued>>

Records(identity) == collections[NameOf(identity)]

\* The second search is made only when the first one succeeded and kept nothing.
SecondOutcomes(ranking, query, max_results, o1, outcomes) ==
    IF ~QueryFails(o1)
       /\ FallbackFires(search_memories(ranking, query, EffectiveMax(max_results) * 2,
                                        Some(LONG_TERM_MEMORY_THRESHOLD)))
      THEN outcomes ELSE {"ok"}

Retrieve(identity, query, memory_type, max_results, min_importance, outcomes) ==
    /\ \E ranking \in Rankings(Range(Records(identity)), query), o1 \in outcomes :
         \E o2 \in SecondOutcomes(ranking, query, max_results, o1, outcomes) :
           last' = [op |-> "retrieve", identity |-> identity, query |-> query,
                    memory_type |-> memory_type, max_results |-> max_results,
                    min_importance |-> min_importance]
                   @@ retrieve_memories(ranking, query, memory_type, max_results,
                                        min_importance, o1, o2, now)
    /\ UNCHANGED <<collections, stored, now, flowVars, registryVars>>

\* get_memories_by_type: the type is both the query text and the filter
GetByType(identity, memory_type, limit, outcomes) ==
    /\ \E ranking \in Rankings(Range(Records(identity)), memory_type), o1 \in outcomes :
         \E o2 \in SecondOutcomes(ranking, memory_type, Some(limit), o1, outcomes) :
           last' = [op |-> "get_by_type", identity |-> identity, query |-> memory_type,
                    memory_type |-> memory_type, max_results |-> Some(limit),
                    min_importance |-> NoNumber]
                   @@ retrieve_memories(ranking, memory_type, memory_type, Some(limit),
                                        NoNumber, o1, o2, now)
    /\ UNCHANGED <<collections, stored, now, flowVars, registryVars>>

Store(identity, args, outcome) ==
    /\ store_memory(identity, args, outcome)
    /\ UNCHANGED <<now, flowVars, registryVars>>

(***************************************************************************)
(* get_memory_by_id, delete_memory, clear_all_memories.                    *)
(***************************************************************************)
Lookup(records, memory_id) ==
    SelectSeq(records, LAMBDA r : r.id = memory_id /\ r.text # "")

\* VectorStore.get_memory_by_id catches every exception and returns None; the
\* manager returns {'id', 'content', **metadata} with the access fields
\* updated, the other metadata (tags as the joined string) as the index holds it
\* a manager that writes the updated access fields back to the index
GetByIdWritingBack(identity, memory_id, outcome) ==
    /\ LET hit == Lookup(Records(identity), memory_id)
           found == outcome = "ok" /\ hit # <<>>
           updated == [hit[1].metadata EXCEPT !.last_accessed = now, !.access_count = @ + 1]
       IN  /\ last' = [op |-> "get_by_id", identity |-> identity, id |-> memory_id,
                       call |-> outcome, found |-> found, raised |-> FALSE,
                       result |-> IF found
                           THEN updated @@ [id |-> memory_id, content |-> hit[1].text]
                           ELSE None]
           /\ collections' = [collections EXCEPT ![NameOf(identity)] =
                  [i \in 1..Len(@) |->
                      IF found /\ @[i].id = memory_id
                        THEN [@[i] EXCEPT !.metadata = updated] ELSE @[i]]]
    /\ UNCHANGED <<stored, now, flowVars, registryVars>>

GetById(identity, memory_id, outcome) ==
    /\ LET hit == Lookup(Records(identity), memory_id)
           found == outcome = "ok" /\ hit # <<>>
       IN  last' = [op |-> "get_by_id", identity |-> identity, id |-> memory_id,
                    call |-> outcome, found |-> found, raised |-> FALSE,
                    result |-> IF found
                        THEN [hit[1].metadata EXCEPT !.last_accessed = now,
                                                    !.access_count = @ + 1]
                             @@ [id |-> memory_id, content |-> hit[1].text]
                        ELSE None]
    /\ UNCHANGED <<collections, stored, now, flowVars, registryVars>>

\* a delete that reports success and removes nothing
DeleteNothing(identity, memory_id, outcome) ==
    /\ last' = [op |-> "delete", identity |-> identity, id |-> memory_id,
                call |-> outcome, result |-> outcome = "ok"]
    /\ UNCHANGED <<collections, stored, now, flowVars, registryVars>>

Delete(identity, memory_id, outcome) ==
    /\ collections' = [collections EXCEPT ![NameOf(identity)] =
            IF outcome = "ok" THEN SelectSeq(@, LAMBDA r : r.id # memory_id) ELSE @]
    /\ last' = [op |-> "delete", identity |-> identity, id |-> memory_id,
                call |-> outcome, result |-> outcome = "ok"]
    /\ UNCHANGED <<stored, now, flowVars, registryVars>>

\* delete_collection, then get_or_create_collection; either may raise
ClearAll(identity, outcome) ==
    /\ collections' = [collections EXCEPT ![NameOf(identity)] =
            IF outcome = "delete_collection_error" THEN @ ELSE <<>>]
    /\ last' = [op |-> "clear_all", identity |-> identity, call |-> outcome,
                result |-> outcome = "ok"]
    /\ UNCHANGED <<stored, now, flowVars, registryVars>>

(***************************************************************************)
(* The memory-suggestion analyzer (MemoryAgent._analyze_for_memory_storage)*)
(* and suggestion storage.  A str is viewed as its sequence of characters  *)
(* for lower() and for the substring test `keyword in text`.               *)
(***************************************************************************)
Utterances == {"hi", "I Like tea", "i am important"}

Chars(text) ==
    CASE text = "hi" ->
            <<"h", "i">>
      [] text = "I Like tea" ->
            <<"I", " ", "L", "i", "k", "e", " ", "t", "e", "a">>
      [] text = "i am important" ->
            <<"i", " ", "a", "m", " ", "i", "m", "p", "o", "r", "t", "a", "n", "t">>
      [] text = "I love pizza and my name is Sam" ->
            <<"I", " ", "l", "o", "v", "e", " ", "p", "i", "z", "z", "a", " ", "a",
              "n", "d", " ", "m", "y", " ", "n", "a", "m", "e", " ", "i", "s", " ",
              "S", "a", "m">>
      [] text = "Note that I HATE my job" ->
            <<"N", "o", "t", "e", " ", "t", "h", "a", "t", " ", "I", " ", "H", "A",
              "T", "E", " ", "m", "y", " ", "j", "o", "b">>
      [] text = "i like" ->
            <<"i", " ", "l", "i", "k", "e">>
      [] text = "i prefer" ->
            <<"i", " ", "p", "r", "e", "f", "e", "r">>
      [] text = "i don't like" ->
            <<"i", " ", "d", "o", "n", "'", "t", " ", "l", "i", "k", "e">>
      [] text = "i hate" ->
            <<"i", " ", "h", "a", "t", "e">>
      [] text = "my favorite" ->
            <<"m", "y", " ", "f", "a", "v", "o", "r", "i", "t", "e">>
      [] text = "i love" ->
            <<"i", " ", "l", "o", "v", "e">>
      [] text = "i enjoy" ->
            <<"i", " ", "e", "n", "j", "o", "y">>
      [] text = "my name is" ->
            <<"m", "y", " ", "n", "a", "m", "e", " ", "i", "s">>
      [] text = "i am" ->
            <<"i", " ", "a", "m">>
      [] text = "i work" ->
            <<"i", " ", "w", "o", "r", "k">>
      [] text = "i live" ->
            <<"i", " ", "l", "i", "v", "e">>
      [] text = "my job" ->
            <<"m", "y", " ", "j", "o", "b">>
      [] text = "remember that" ->
            <<"r", "e", "m", "e", "m", "b", "e", "r", " ", "t", "h", "a", "t">>
      [] text = "important" ->
            <<"i", "m", "p", "o", "r", "t", "a", "n", "t">>
      [] text = "don't forget" ->
            <<"d", "o", "n", "'", "t", " ", "f", "o", "r", "g", "e", "t">>
      [] text = "note that" ->
            <<"n", "o", "t", "e", " ", "t", "h", "a", "t">>

LowerChar(c) ==
    CASE c = "A" -> "a" [] c = "B" -> "b" [] c = "C" -> "c" [] c = "D" -> "d"
      [] c = "E" -> "e" [] c = "F" -> "f" [] c = "G" -> "g" [] c = "H" -> "h"
      [] c = "I" -> "i" [] c = "J" -> "j" [] c = "K" -> "k" [] c = "L" -> "l"
      [] c = "M" -> "m" [] c = "N" -> "n" [] c = "O" -> "o" [] c = "P" -> "p"
      [] c = "Q" -> "q" [] c = "R" -> "r" [] c = "S" -> "s" [] c = "T" -> "t"
      [] c = "U" -> "u" [] c = "V" -> "v" [] c = "W" -> "w" [] c = "X" -> "x"
      [] c = "Y" -> "y" [] c = "Z" -> "z"
      [] OTHER -> c

Lower(chars) == [i \in 1..Len(chars) |-> LowerChar(chars[i])]

\* `needle in hay`
Contains(hay, needle) ==
    \E i \in 1..(Len(hay) - Len(needle) + 1) : SubSeq(hay, i, i + Len(needle) - 1) = needle

preference_keywords ==
    <<"i like", "i prefer", "i don't like", "i hate", "my favorite", "i love", "i enjoy">>
personal_keywords == <<"my name is", "i am", "i work", "i live", "my job">>
fact_keywords == <<"remember that", "important", "don't forget", "note that">>

\* any(keyword in user_message.lower() for keyword in keywords)
AnyKeyword(keywords, user_message) ==
    \E i \in 1..Len(keywords) : Contains(Lower(Chars(user_message)), Chars(keywords[i]))

Suggestion(type, content, reason, importance) ==
    [type |-> type, content |-> content, reason |-> reason, importance |-> importance]

\* an analyzer whose categories exclude one another: the first that fires wins
analyze_for_memory_storageFirstOnly(user_message, response, relevant_memories) ==
    IF AnyKeyword(preference_keywords, user_message)
      THEN <<Suggestion("preference", user_message, "User expressed a preference", 8)>>
    ELSE IF AnyKeyword(personal_keywords, user_message)
      THEN <<Suggestion("fact", user_message, "User shared personal information", 9)>>
    ELSE IF AnyKeyword(fact_keywords, user_message)
      THEN <<Suggestion("fact", user_message,
                        "User indicated this is important to remember", 8)>>
    ELSE <<>>

\* an analyzer that suggests nothing for an utterance already among the
\* retrieved memories
analyze_for_memory_storageUnlessKnown(user_message, response, relevant_memories) ==
    IF \E i \in 1..Len(relevant_memories) : relevant_memories[i].content = user_message
      THEN <<>>
      ELSE (IF AnyKeyword(preference_keywords, user_message)
              THEN <<Suggestion("preference", user_message,
                                "User expressed a preference", 8)>>
              ELSE <<>>)
           \o (IF AnyKeyword(personal_keywords, user_message)
                 THEN <<Suggestion("fact", user_message,
                                   "User shared personal information", 9)>>
                 ELSE <<>>)
           \o (IF AnyKeyword(fact_keywords, user_message)
                 THEN <<Suggestion("fact", user_message,
                                   "User indicated this is important to remember", 8)>>
                 ELSE <<>>)

\* response and relevant_memories are parameters the body never reads
analyze_for_memory_storage(user_message, response, relevant_memories) ==
    (IF AnyKeyword(preference_keywords, user_message)
        THEN <<Suggestion("preference", user_message, "User expressed a preference", 8)>>
        ELSE <<>>)
    \o (IF AnyKeyword(personal_keywords, user_message)
        THEN <<Suggestion("fact", user_message, "User shared personal information", 9)>>
        ELSE <<>>)
    \o (IF AnyKeyword(fact_keywords, user_message)
        THEN <<Suggestion("fact", user_message,
                          "User indicated this is important to remember", 8)>>
        ELSE <<>>)

\* the arguments store_memory_suggestion passes to store_memory
SuggestionArgs(suggestion) ==
    StoreArgs(suggestion.content, suggestion.type, suggestion.importance, <<>>,
              "Stored from conversation - " \o suggestion.reason, None)

store_memory_suggestion(identity, suggestion, outcome) ==
    store_memory(identity, SuggestionArgs(suggestion), outcome)

(***************************************************************************)
(* The short-term buffer: an ordered log of role-tagged messages, capped   *)
(* at SHORT_TERM_MEMORY_SIZE by dropping the oldest entries.               *)
(***************************************************************************)
\* a buffer that drops the newest message once it is full
add_messageKeepOldest(buffer, role, content) ==
    IF Len(buffer) >= SHORT_TERM_MEMORY_SIZE
      THEN buffer
      ELSE Append(buffer, [role |-> role, content |-> content])

add_message(buffer, role, content) ==
    LET appended == Append(buffer, [role |-> role, content |-> content])
    IN  IF Len(appended) > SHORT_TERM_MEMORY_SIZE
          THEN SubSeq(appended, Len(appended) - SHORT_TERM_MEMORY_SIZE + 1, Len(appended))
          ELSE appended

add_user_message(buffer, content) == add_message(buffer, "user", content)
add_assistant_message(buffer, content) == add_message(buffer, "assistant", content)
get_conversation_context(buffer) == buffer

\* a clear that keeps the newest message
clearKeepNewest(buffer) ==
    IF buffer = <<>> THEN <<>> ELSE <<buffer[Len(buffer)]>>

clear(buffer) == <<>>

\* total message count and role breakdown
get_stats(buffer) ==
    [total_messages |-> Len(buffer),
     user_messages |-> Len(SelectSeq(buffer, LAMBDA m : m.role = "user")),
     assistant_messages |-> Len(SelectSeq(buffer, LAMBDA m : m.role = "assistant"))]

(***************************************************************************)
(* The turn workflow (MemoryAgentWorkflow).  pc is the node about to run;  *)
(* "END" is the graph's end, where run() builds its result.                *)
(***************************************************************************)
Completion == "reply"      \* what the completion call answers when it succeeds
GenerateApology == "I apologize, but I encountered an error generating a response."

InitialState(user_input) ==
    [messages |-> <<>>, user_input |-> user_input, agent_response |-> "",
     relevant_memories |-> <<>>, memory_suggestions |-> <<>>,
     should_store_memory |-> FALSE, stored_memory_ids |-> <<>>, error |-> None]

\* a guard that also looks at the error field
should_store_memoryUnlessError(st) ==
    IF st.should_store_memory /\ st.error = None THEN "store" ELSE "skip"

\* _should_store_memory
should_store_memory(st) == IF st.should_store_memory THEN "store" ELSE "skip"

\* a graph whose generate_response node ends the turn when it has set the error
build_graphEndsOnError(node, st) ==
    CASE node = "process_input" -> "retrieve_memories"
      [] node = "retrieve_memories" -> "generate_response"
      [] node = "generate_response" -> IF st.error = None THEN "analyze_memory" ELSE "END"
      [] node = "analyze_memory" ->
            IF should_store_memory(st) = "store" THEN "store_memory" ELSE "finalize"
      [] node = "store_memory" -> "finalize"
      [] node = "finalize" -> "END"

\* a graph that retrieves after the store stage instead of before generation
build_graphRetrieveLast(node, st) ==
    CASE node = "process_input" -> "generate_response"
      [] node = "generate_response" -> "analyze_memory"
      [] node = "analyze_memory" ->
            IF should_store_memory(st) = "store" THEN "store_memory" ELSE "retrieve_memories"
      [] node = "store_memory" -> "retrieve_memories"
      [] node = "retrieve_memories" -> "finalize"
      [] node = "finalize" -> "END"

\* _build_graph: the node that follows `node` when it returns state st
build_graph(node, st) ==
    CASE node = "process_input" -> "retrieve_memories"
      [] node = "retrieve_memories" -> "generate_response"
      [] node = "generate_response" -> "analyze_memory"
      [] node = "analyze_memory" ->
            IF should_store_memory(st) = "store" THEN "store_memory" ELSE "finalize"
      [] node = "store_memory" -> "finalize"
      [] node = "finalize" -> "END"

\* a node has run and returned st
Leave(node, st) ==
    /\ state' = st
    /\ visited' = Append(visited, node)
    /\ pc' = build_graph(node, st)

\* run(): the initial state is built and the graph is entered
run(user_input) ==
    /\ pc = "idle"
    /\ turns < MaxTurns
    /\ turns' = turns + 1
    /\ state' = InitialState(user_input)
    /\ visited' = <<>>
    /\ failures' = {}
    /\ result' = NoTurn
    /\ pc' = "process_input"
    /\ UNCHANGED <<collections, stored, now, last, shortTerm, registryVars>>

process_input_node ==
    /\ pc = "process_input"
    /\ shortTerm' = add_user_message(shortTerm, state.user_input)
    /\ Leave("process_input", [state EXCEPT !.error = None])
    /\ UNCHANGED <<collections, stored, now, last, result, turns, failures, registryVars>>

retrieve_memories_node ==
    /\ pc = "retrieve_memories"
    /\ \E ranking \in Rankings(Range(Records(AgentIdentity)), state.user_input),
          o1 \in CallOutcomes :
         \E o2 \in SecondOutcomes(ranking, state.user_input, Some(MAX_LONG_TERM_MEMORIES),
                                  o1, CallOutcomes) :
           LET r == retrieve_memories(ranking, state.user_input, None,
                                      Some(MAX_LONG_TERM_MEMORIES), NoNumber, o1, o2, now)
           IN  /\ last' = [op |-> "retrieve", identity |-> AgentIdentity,
                           query |-> state.user_input, memory_type |-> None,
                           max_results |-> Some(MAX_LONG_TERM_MEMORIES),
                           min_importance |-> NoNumber] @@ r
               /\ failures' = IF r.failed THEN failures \cup {"retrieve_memories"}
                                          ELSE failures
               /\ Leave("retrieve_memories",
                        IF r.raised
                          THEN [state EXCEPT !.error = "retrieve_memories raised",
                                             !.relevant_memories = <<>>]
                          ELSE [state EXCEPT !.relevant_memories = r.result])
    /\ UNCHANGED <<collections, stored, now, result, shortTerm, turns, registryVars>>

\* a node that also appends the apology to the buffer
generate_response_nodeApologyBuffered ==
    /\ pc = "generate_response"
    /\ \E outcome \in CallOutcomes :
         IF outcome = "ok"
           THEN /\ shortTerm' = add_assistant_message(shortTerm, Completion)
                /\ failures' = failures
                /\ Leave("generate_response", [state EXCEPT !.agent_response = Completion])
           ELSE /\ shortTerm' = add_assistant_message(shortTerm, GenerateApology)
                /\ failures' = failures \cup {"generate_response"}
                /\ Leave("generate_response",
                         [state EXCEPT !.error = "completion call raised",
                                       !.agent_response = GenerateApology])
    /\ UNCHANGED <<collections, stored, now, last, result, turns, registryVars>>

generate_response_node ==
    /\ pc = "generate_response"
    /\ \E outcome \in CallOutcomes :
         IF outcome = "ok"
           THEN /\ shortTerm' = add_assistant_message(shortTerm, Completion)
                /\ failures' = failures
                /\ Leave("generate_response", [state EXCEPT !.agent_response = Completion])
           ELSE /\ shortTerm' = shortTerm
                /\ failures' = failures \cup {"generate_response"}
                /\ Leave("generate_response",
                         [state EXCEPT !.error = "completion call raised",
                                       !.agent_response = GenerateApology])
    /\ UNCHANGED <<collections, stored, now, last, result, turns, registryVars>>

analyze_memory_node ==
    /\ pc = "analyze_memory"
    /\ LET memory_suggestions ==
               analyze_for_memory_storage(state.user_input, state.agent_response,
                                          state.relevant_memories)
       IN  Leave("analyze_memory",
                 [state EXCEPT !.memory_suggestions = memory_suggestions,
                               !.should_store_memory = Len(memory_suggestions) > 0])
    /\ UNCHANGED <<collections, stored, now, last, result, shortTerm, turns, failures,
                   registryVars>>

\* the loop over the suggestions: each store may fail on its own, and a
\* failure is logged and the loop goes on
store_memory_node ==
    /\ pc = "store_memory"
    /\ \E outcomes \in [1..Len(state.memory_suggestions) -> CallOutcomes] :
         LET suggestions == state.memory_suggestions
             n == Len(suggestions)
             IdAt(i) == Len(stored) + Cardinality({j \in 1..i : outcomes[j] = "ok"})
             Call(i) == [args |-> SuggestionArgs(suggestions[i]),
                         identity |-> AgentIdentity]
                        @@ StoreReturn(outcomes[i], IdAt(i))
             calls == [i \in 1..n |-> Call(i)]
             added == SelectSeq(calls, LAMBDA c : c.call = "ok")
             returned == SelectSeq(calls, LAMBDA c : ~c.raised)
         IN  /\ collections' = [collections EXCEPT ![NameOf(AgentIdentity)] =
                    @ \o [k \in 1..Len(added) |->
                            IndexRecord(added[k].id, added[k].args.content,
                                        StoreMetadata(added[k].args, now))]]
             /\ stored' = stored \o [k \in 1..Len(added) |->
                                        [identity |-> AgentIdentity, args |-> added[k].args]]
             /\ last' = IF n = 0 THEN last ELSE [op |-> "store"] @@ calls[n]
             /\ failures' = IF \E i \in 1..n : outcomes[i] # "ok"
                              THEN failures \cup {"store_memory"} ELSE failures
             /\ Leave("store_memory",
                      [state EXCEPT !.stored_memory_ids =
                            [k \in 1..Len(returned) |-> returned[k].id]])
    /\ UNCHANGED <<now, result, shortTerm, turns, registryVars>>

finalize_node ==
    /\ pc = "finalize"
    /\ Leave("finalize", state)
    /\ UNCHANGED <<collections, stored, now, last, result, shortTerm, turns, failures,
                   registryVars>>

RunResult(final_state, buffer) ==
    [response |-> final_state.agent_response,
     relevant_memories |-> final_state.relevant_memories,
     memory_suggestions |-> final_state.memory_suggestions,
     stored_memory_ids |-> final_state.stored_memory_ids,
     error |-> final_state.error,
     short_term_context |-> get_conversation_context(buffer)]

\* run(): the graph has ended and the result is returned to the caller
run_return ==
    /\ pc = "END"
    /\ result' = RunResult(state, shortTerm)
    /\ pc' = "idle"
    /\ UNCHANGED <<collections, stored, now, last, state, visited, shortTerm, turns,
                   failures, registryVars>>

(***************************************************************************)
(* The session registry (SessionManager).  An instance holds the users and *)
(* sessions maps in memory and rewrites the whole map to its file after a  *)
(* mutation.  The clock counts seconds.  An id is "user_" or "session_"    *)
(* followed by a prefix of a uuid4, taken here as never generated twice:   *)
(* the n-th id generated is numbered n.  A call is recorded with what it   *)
(* returned: `result` for an id or None, `returned` for a bool, `removed`  *)
(* for the count of cleanup_old_sessions.                                  *)
(***************************************************************************)
RegistryInstances == {"r1", "r2"}
\* a write succeeds; or open() raises and the file stays as it was; or
\* json.dump raises after open() has truncated the file
SaveOutcomes == {"ok", "error", "partial"}

EmptyRegistry == [users |-> EmptyDict, sessions |-> EmptyDict]

UserId(n) == "user_" \o ToString(n)
SessionId(n) == "session_" \o ToString(n)

\* the map after `del map[k]` for the keys not kept
Restrict(map, keys) == [k \in keys |-> map[k]]

\* _save_users / _save_sessions: the file holds the map, unless the write
\* fails, which is logged and otherwise ignored
\* A file of the data directory: absent, a JSON document holding a map, or
\* the beginning of one.  The records hold strings, numbers and the empty
\* metadata dict, which json.dump and json.load carry over unchanged.
AbsentFile == [state |-> "absent", data |-> EmptyDict]

\* a save that reports success and writes nothing
SaveNothing(file, map, outcome) == file

Save(file, map, outcome) ==
    CASE outcome = "ok" -> [state |-> "json", data |-> map]
      [] outcome = "partial" -> [state |-> "partial", data |-> EmptyDict]
      [] OTHER -> file

\* a load that reads nothing
LoadNothing(file) == EmptyDict

\* _load_users / _load_sessions: {} when the file is absent or json.load raises
Load(file) == IF file.state = "json" THEN file.data ELSE EmptyDict

\* SessionManager.__init__ on the data directory
Open(r) ==
    /\ registries' = [registries EXCEPT ![r] = [users |-> Load(files.users),
                                                sessions |-> Load(files.sessions)]]
    /\ last' = [op |-> "open", instance |-> r]
    /\ UNCHANGED <<files, issued>>

User(user_id, username, t) ==
    [user_id |-> user_id, username |-> username, created_at |-> t, last_login |-> t,
     total_sessions |-> 0, metadata |-> EmptyDict]

ChatSession(session_id, user_id, t) ==
    [session_id |-> session_id, user_id |-> user_id, created_at |-> t,
     last_activity |-> t, metadata |-> EmptyDict]

\* a membership test that takes every session id for a known one
KnownSessionAlways(sessions, session_id) == TRUE

\* a membership test that finds no session
KnownSessionNever(sessions, session_id) == FALSE

\* `session_id in self.sessions`
KnownSession(sessions, session_id) == session_id \in DOMAIN sessions

\* a membership test that accepts every user id
KnownUserAlways(users, user_id) == TRUE

\* `user_id not in self.users`, negated
KnownUser(users, user_id) == user_id \in DOMAIN users

\* user stats that count the session and keep the old login time
LoginCountsOnly(user, t) == [user EXCEPT !.total_sessions = @ + 1]

\* user.total_sessions += 1; user.last_login = current_time
Login(user, t) == [user EXCEPT !.total_sessions = @ + 1, !.last_login = t]

\* a cascade that takes every session
UserSessionsAll(sessions, user_id) == DOMAIN sessions

\* a cascade that takes no session
UserSessionsNone(sessions, user_id) == {}

\* [sid for sid, session in self.sessions.items() if session.user_id == user_id]
UserSessions(sessions, user_id) ==
    {sid \in DOMAIN sessions : sessions[sid].user_id = user_id}

\* a test that also expires a session last active exactly at the cutoff
ExpiredAtCutoff(session, cutoff_time) == session.last_activity <= cutoff_time

\* `session.last_activity < cutoff_time`
Expired(session, cutoff_time) == session.last_activity < cutoff_time

create_user(r, username, outcome) ==
    LET user_id == UserId(issued.users + 1)
        users == (user_id :> User(user_id, username, now)) @@ registries[r].users
    IN  /\ registries' = [registries EXCEPT ![r].users = users]
        /\ files' = [files EXCEPT !.users = Save(@, users, outcome)]
        /\ issued' = [issued EXCEPT !.users = @ + 1]
        /\ last' = [op |-> "create_user", instance |-> r, username |-> username,
                    raised |-> FALSE, result |-> user_id, writes |-> <<"users">>,
                    saved |-> <<outcome>>]

\* the users of a map in the order of its keys: a dict keeps insertion
\* order, a new id is inserted last, and the n-th id generated is numbered n
UsersInOrder(users) ==
    LET numbers == {n \in 1..issued.users : UserId(n) \in DOMAIN users}
        RECURSIVE From(_)
        From(n) == IF n > issued.users THEN <<>>
                   ELSE IF n \in numbers THEN <<users[UserId(n)]>> \o From(n + 1)
                   ELSE From(n + 1)
    IN  From(1)

\* a lookup that keeps the last match of the loop instead of returning the first
find_user_by_usernameLast(users, username) ==
    LET matches == SelectSeq(UsersInOrder(users), LAMBDA user : user.username = username)
    IN  IF matches = <<>> THEN None ELSE matches[Len(matches)].user_id

\* the user_id of the User the loop returns, or None
find_user_by_username(users, username) ==
    LET matches == SelectSeq(UsersInOrder(users), LAMBDA user : user.username = username)
    IN  IF matches = <<>> THEN None ELSE matches[1].user_id

FindUser(r, username) ==
    /\ last' = [op |-> "find_user_by_username", instance |-> r, username |-> username,
                raised |-> FALSE,
                result |-> find_user_by_username(registries[r].users, username)]
    /\ UNCHANGED <<registries, files, issued>>

create_session(r, user_id, saveSessions, saveUsers) ==
    IF ~KnownUser(registries[r].users, user_id)
      THEN /\ last' = [op |-> "create_session", instance |-> r, user_id |-> user_id,
                       raised |-> TRUE, result |-> None, writes |-> <<>>, saved |-> <<>>,
                       error |-> "User " \o user_id \o " not found"]
           /\ UNCHANGED <<registries, files, issued>>
      ELSE LET session_id == SessionId(issued.sessions + 1)
               sessions == (session_id :> ChatSession(session_id, user_id, now))
                           @@ registries[r].sessions
               users == [registries[r].users EXCEPT ![user_id] = Login(@, now)]
           IN  /\ registries' = [registries EXCEPT ![r] =
                                    [users |-> users, sessions |-> sessions]]
               /\ files' = [sessions |-> Save(files.sessions, sessions, saveSessions),
                            users |-> Save(files.users, users, saveUsers)]
               /\ issued' = [issued EXCEPT !.sessions = @ + 1]
               /\ last' = [op |-> "create_session", instance |-> r, user_id |-> user_id,
                           raised |-> FALSE, result |-> session_id,
                           writes |-> <<"sessions", "users">>,
                           saved |-> <<saveSessions, saveUsers>>]

update_session_activity(r, session_id, outcome) ==
    IF KnownSession(registries[r].sessions, session_id)
      THEN LET sessions == [registries[r].sessions EXCEPT ![session_id].last_activity = now]
           IN  /\ registries' = [registries EXCEPT ![r].sessions = sessions]
               /\ files' = [files EXCEPT !.sessions = Save(@, sessions, outcome)]
               /\ last' = [op |-> "update_session_activity", instance |-> r,
                           session_id |-> session_id, raised |-> FALSE, result |-> None,
                           writes |-> <<"sessions">>, saved |-> <<outcome>>]
               /\ UNCHANGED issued
      ELSE /\ last' = [op |-> "update_session_activity", instance |-> r,
                       session_id |-> session_id, raised |-> FALSE, result |-> None,
                       writes |-> <<>>, saved |-> <<>>]
           /\ UNCHANGED <<registries, files, issued>>

end_session(r, session_id, outcome) ==
    IF KnownSession(registries[r].sessions, session_id)
      THEN LET sessions == Restrict(registries[r].sessions,
                                    DOMAIN registries[r].sessions \ {session_id})
           IN  /\ registries' = [registries EXCEPT ![r].sessions = sessions]
               /\ files' = [files EXCEPT !.sessions = Save(@, sessions, outcome)]
               /\ last' = [op |-> "end_session", instance |-> r,
                           session_id |-> session_id, raised |-> FALSE, returned |-> TRUE,
                           writes |-> <<"sessions">>, saved |-> <<outcome>>]
               /\ UNCHANGED issued
      ELSE /\ last' = [op |-> "end_session", instance |-> r, session_id |-> session_id,
                       raised |-> FALSE, returned |-> FALSE, writes |-> <<>>, saved |-> <<>>]
           /\ UNCHANGED <<registries, files, issued>>

cleanup_old_sessions(r, max_age_hours, outcome) ==
    LET cutoff_time == now - (max_age_hours * 3600)
        old_sessions == {sid \in DOMAIN registries[r].sessions :
                            Expired(registries[r].sessions[sid], cutoff_time)}
        sessions == Restrict(registries[r].sessions,
                             DOMAIN registries[r].sessions \ old_sessions)
    IN  /\ registries' = [registries EXCEPT ![r].sessions = sessions]
        /\ files' = IF old_sessions # {}
                      THEN [files EXCEPT !.sessions = Save(@, sessions, outcome)]
                      ELSE files
        /\ last' = [op |-> "cleanup_old_sessions", instance |-> r,
                    max_age_hours |-> max_age_hours, raised |-> FALSE,
                    removed |-> Cardinality(old_sessions),
                    writes |-> IF old_sessions # {} THEN <<"sessions">> ELSE <<>>,
                    saved |-> IF old_sessions # {} THEN <<outcome>> ELSE <<>>]
        /\ UNCHANGED issued

delete_user(r, user_id, saveUsers, saveSessions) ==
    IF ~KnownUser(registries[r].users, user_id)
      THEN /\ last' = [op |-> "delete_user", instance |-> r, user_id |-> user_id,
                       raised |-> FALSE, returned |-> FALSE, writes |-> <<>>, saved |-> <<>>]
           /\ UNCHANGED <<registries, files, issued>>
      ELSE LET user_sessions == UserSessions(registries[r].sessions, user_id)
               sessions == Restrict(registries[r].sessions,
                                    DOMAIN registries[r].sessions \ user_sessions)
               users == Restrict(registries[r].users,
                                 DOMAIN registries[r].users \ {user_id})
           IN  /\ registries' = [registries EXCEPT ![r] =
                                    [users |-> users, sessions |-> sessions]]
               /\ files' = [users |-> Save(files.users, users, saveUsers),
                            sessions |-> Save(files.sessions, sessions, saveSessions)]
               /\ last' = [op |-> "delete_user", instance |-> r, user_id |-> user_id,
                           raised |-> FALSE, returned |-> TRUE,
                           writes |-> <<"users", "sessions">>,
                           saved |-> <<saveUsers, saveSessions>>,
                           logged |-> Cardinality(user_sessions)]
               /\ UNCHANGED issued

\* Where the process can be killed in a call that writes two files, as the
\* outcomes of the two writes: before the first, inside the first, between
\* the two, inside the second.
CrashPoints ==
    {<<"error", "error">>, <<"partial", "error">>, <<"ok", "error">>, <<"ok", "partial">>}

\* the instance that is built on the data directory after the process died
Restarted(r, written) ==
    /\ files' = written
    /\ registries' = [registries EXCEPT ![r] =
          [users |-> Load(written.users), sessions |-> Load(written.sessions)]]

\* create_session killed at a crash point: _save_sessions() comes first
create_sessionKilled(r, user_id, point) ==
    /\ KnownUser(registries[r].users, user_id)
    /\ LET session_id == SessionId(issued.sessions + 1)
           sessions == (session_id :> ChatSession(session_id, user_id, now))
                       @@ registries[r].sessions
           users == [registries[r].users EXCEPT ![user_id] = Login(@, now)]
       IN  Restarted(r, [sessions |-> Save(files.sessions, sessions, point[1]),
                         users |-> Save(files.users, users, point[2])])
    /\ issued' = [issued EXCEPT !.sessions = @ + 1]
    /\ last' = [op |-> "killed", instance |-> r, during |-> "create_session",
                user_id |-> user_id, saved |-> point]

\* delete_user killed at a crash point: _save_users() comes first
delete_userKilled(r, user_id, point) ==
    /\ KnownUser(registries[r].users, user_id)
    /\ LET user_sessions == UserSessions(registries[r].sessions, user_id)
           sessions == Restrict(registries[r].sessions,
                                DOMAIN registries[r].sessions \ user_sessions)
           users == Restrict(registries[r].users,
                             DOMAIN registries[r].users \ {user_id})
       IN  Restarted(r, [users |-> Save(files.users, users, point[1]),
                         sessions |-> Save(files.sessions, sessions, point[2])])
    /\ last' = [op |-> "killed", instance |-> r, during |-> "delete_user",
                user_id |-> user_id, saved |-> point]
    /\ UNCHANGED issued

\* MemoryAgent.clear_short_term_memory
clear_short_term_memory ==
    /\ shortTerm' = clear(shortTerm)
    /\ last' = [op |-> "clear_short_term_memory"]
    /\ UNCHANGED <<collections, stored, now, pc, state, visited, result, turns,
                   failures, registryVars>>

(***************************************************************************)
(* Initial state: an empty index, nothing stored, no turn running.         *)
(***************************************************************************)
NoCall == [op |-> "none"]
NoState == InitialState("")

Init ==
    /\ collections = [n \in Names |-> <<>>]
    /\ stored = <<>>
    /\ now = 0
    /\ last = NoCall
    /\ pc = "idle"
    /\ state = NoState
    /\ visited = <<>>
    /\ result = NoTurn
    /\ shortTerm = <<>>
    /\ turns = 0
    /\ failures = {}
    /\ registries = [r \in RegistryInstances |-> EmptyRegistry]
    /\ files = [users |-> AbsentFile, sessions |-> AbsentFile]
    /\ issued = [users |-> 0, sessions |-> 0]

(***************************************************************************)
(* Isolation specification: the manager's operations issued through the    *)
(* stores of several identities, interleaved in any order.                 *)
(***************************************************************************)
IsolationQueries == {"q1", "q2"}
IsolationContents == {"c1"}

IsoStore ==
    \E p \in Identities, c \in IsolationContents :
        /\ Len(stored) < MaxStores
        /\ Store(p, StoreArgs(c, "fact", 5, <<>>, None, None), "ok")

IsoRetrieve ==
    \E p \in Identities, q \in IsolationQueries :
        Retrieve(p, q, None, NoNumber, NoNumber, {"ok"})

IsoGetByType ==
    \E p \in Identities : GetByType(p, "fact", 10, {"ok"})

IsoGetById ==
    \E p \in Identities, id \in 1..Len(stored) : GetById(p, id, "ok")

IsoDelete ==
    \E p \in Identities, id \in 1..Len(stored) : Delete(p, id, "ok")

IsoClearAll ==
    \E p \in Identities : ClearAll(p, "ok")

NextIsolation ==
    \/ IsoStore
    \/ IsoRetrieve
    \/ IsoGetByType
    \/ IsoGetById
    \/ IsoDelete
    \/ IsoClearAll

SpecIsolation == Init /\ [][NextIsolation]_vars

\* The identity through whose store a returned entry was stored.
StoredBy(entry) == stored[entry.id].identity

\* C1: a memory stored through the store of one (user_id, session_id) pair is
\* never returned by retrieve, get_by_id or get_by_type issued through the
\* store of a different pair.
C1_NamespaceIsolation ==
    /\ last.op \in {"retrieve", "get_by_type"} =>
          \A i \in 1..Len(last.result) : StoredBy(last.result[i]) = last.identity
    /\ (last.op = "get_by_id" /\ last.found) => StoredBy(last.result) = last.identity

\* The entry for memory `id` in what a retrieval call returned, if any.
Reported(call, id) ==
    IF call.op \in {"retrieve", "get_by_type"}
      THEN SelectSeq(call.result, LAMBDA e : e.id = id)
      ELSE IF call.op = "get_by_id" /\ call.found /\ call.id = id
             THEN <<call.result>>
             ELSE <<>>

\* C11: every retrieval (retrieve or get_by_id) that returns a record
\* increments its access_count by one, so a retrieval that follows one which
\* reported access_count = k for the record reports k + 1, and the count
\* reported for a record never decreases.
C11_AccessCountIncrements ==
    [][\A id \in 1..Len(stored) :
          (Reported(last, id) # <<>> /\ Reported(last', id) # <<>>) =>
              Reported(last', id)[1].access_count
                  = Reported(last, id)[1].access_count + 1]_vars

(***************************************************************************)
(* Retrieval specification: one store holding memories of several types,   *)
(* importances and distances, queried with every combination of filters.   *)
(***************************************************************************)
RetrievalContents == {"c2", "c3"}
RetrievalKinds == {<<"fact", 3>>, <<"preference", 8>>}
RetrievalQueries == {"q1", "q2"}
RetrievalFilters == {<<None, NoNumber>>, <<"fact", NoNumber>>, <<None, Some(5)>>}
RetrievalMax == {NoNumber, Some(0), Some(1)}

RetStore ==
    \E p \in OneIdentity, c \in RetrievalContents, k \in RetrievalKinds :
        /\ Len(stored) < MaxIndexed
        /\ Store(p, StoreArgs(c, k[1], k[2], <<>>, None, None), "ok")

RetRetrieve ==
    \E p \in OneIdentity, q \in RetrievalQueries, f \in RetrievalFilters,
       m \in RetrievalMax :
        Retrieve(p, q, f[1], m, f[2], CallOutcomes)

NextRetrieval ==
    \/ RetStore
    \/ RetRetrieve

SpecRetrieval == Init /\ [][NextRetrieval]_vars

Unfiltered == last.memory_type = None /\ last.min_importance = NoNumber

\* Retrieval leaves the index as it is: the records the call saw are the records now.
Held == Len(Records(last.identity))
RecordOf(memory_id) ==
    CHOOSE r \in Range(Records(last.identity)) : r.id = memory_id

\* No record of the namespace reaches the similarity threshold for the query.
NoneReachesThreshold ==
    \A r \in Range(Records(last.identity)) :
        Similarity(Distance(last.query, r.text)) < LONG_TERM_MEMORY_THRESHOLD

\* C2 as stated: an unfiltered retrieve on a namespace that holds a memory, none
\* of which reaches the threshold, returns a non-empty list.
C2_FallbackAlways ==
    (last.op = "retrieve" /\ Unfiltered /\ NoneReachesThreshold /\ Held >= 1)
        => last.result # <<>>

\* C2 (amended): an unfiltered retrieve whose embedding and index calls succeed,
\* on a namespace that holds a memory none of which reaches the threshold,
\* re-queries without the threshold and returns a non-empty list.
C2_ThresholdFallback ==
    (last.op = "retrieve" /\ Unfiltered /\ NoneReachesThreshold /\ Held >= 1
        /\ \A i \in 1..Len(last.calls) : last.calls[i] = "ok")
        => (last.fell_back /\ last.result # <<>>)

C2_Witness ==
    /\ last.op = "retrieve" /\ Unfiltered /\ NoneReachesThreshold
    /\ Held >= 2
    /\ last.calls = <<"ok", "ok">>
    /\ last.fell_back
    /\ Len(last.result) >= 1

\* C9: the list retrieve returns has at most max_results entries, for every
\* max_results passed including 0, and at most the configured maximum when
\* max_results is omitted.
C9_Truncation ==
    last.op = "retrieve" =>
        Len(last.result) <= (IF last.max_results = NoNumber
                                THEN MAX_LONG_TERM_MEMORIES ELSE last.max_results[1])

\* The post-filters read literally: a filter applies whenever it is given.
ClaimedPass(memory_id) ==
    /\ (last.memory_type # None =>
            RecordOf(memory_id).metadata.memory_type = last.memory_type)
    /\ (last.min_importance # NoNumber =>
            RecordOf(memory_id).metadata.importance >= last.min_importance[1])

Ids(entries) == [i \in 1..Len(entries) |-> entries[i].id]

\* C10: the list retrieve returns is the first max_results of the index-returned
\* candidates, in index order, that pass the post-filters; none is skipped.
C10_OrderingAndFiltering ==
    (last.op = "retrieve" /\ ~last.failed) =>
        Ids(last.result) =
            Take(SelectSeq(last.candidates, ClaimedPass),
                 IF last.max_results = NoNumber
                    THEN MAX_LONG_TERM_MEMORIES ELSE last.max_results[1])

\* similarity = 1 - distance of a record of the namespace to the query
SimilarityOf(r) == 10 - Distance(last.query, r.text)
ReachThreshold ==
    {r \in Range(Records(last.identity)) : SimilarityOf(r) >= LONG_TERM_MEMORY_THRESHOLD}
AllOf(similarities, Test(_)) ==
    \A i \in 1..Len(similarities) : Test(similarities[i])
Succeeded == last.op = "retrieve" /\ ~last.failed

\* C28: the threshold is compared with similarity = 1 - distance: the
\* thresholded pass keeps a candidate exactly when its similarity is at least
\* the threshold, one exactly at the threshold included; so in every retrieve
\* result either all entries have a similarity of at least the threshold, or
\* (fallback) all entries have a similarity below it.
C28_ThresholdOnSimilarity ==
    Succeeded =>
        LET candidates == [i \in 1..Len(last.candidates) |->
                              SimilarityOf(RecordOf(last.candidates[i]))]
            entries == [i \in 1..Len(last.result) |-> last.result[i].similarity]
            AtLeast(x) == x >= LONG_TERM_MEMORY_THRESHOLD
            Below(x) == x < LONG_TERM_MEMORY_THRESHOLD
        IN  /\ \A i \in 1..Len(last.result) :
                  last.result[i].similarity = SimilarityOf(RecordOf(last.result[i].id))
            /\ IF last.fell_back
                 THEN ReachThreshold = {} /\ AllOf(candidates, Below)
                 ELSE /\ AllOf(candidates, AtLeast)
                      /\ Len(candidates) =
                            Min(EffectiveMax(last.max_results) * 2,
                                Cardinality(ReachThreshold))
            /\ AllOf(entries, AtLeast) \/ (last.fell_back /\ AllOf(entries, Below))

\* a memory exactly at the threshold is returned without the fallback, while
\* the other memory of the namespace, below the threshold, is left out
C28_Witness ==
    /\ Succeeded
    /\ ~last.fell_back
    /\ Held = 2
    /\ Len(last.result) = 1
    /\ last.result[1].similarity = LONG_TERM_MEMORY_THRESHOLD

\* the candidates of the call that pass the post-filters, as the code applies them
PassingCandidates ==
    {i \in 1..Len(last.candidates) :
        PassesFilters(RecordOf(last.candidates[i]).metadata, last.memory_type,
                      last.min_importance)}

\* C29: the re-query without threshold is issued if and only if the
\* thresholded query returned no candidate before post-filtering; when it
\* returned a candidate and the filters reject every candidate, retrieve
\* returns an empty list without falling back, even if a memory of the
\* namespace passes the filters.
C29_FallbackBeforeFiltering ==
    (last.op = "retrieve" /\ last.calls[1] = "ok") =>
        /\ last.fell_back <=> ReachThreshold = {}
        /\ Len(last.calls) = 2 <=> ReachThreshold = {}
        /\ (~last.fell_back /\ PassingCandidates = {}) =>
              (~last.failed /\ last.candidates # <<>> /\ last.result = <<>>)

\* the one candidate that reaches the threshold is rejected by the type
\* filter and the result is empty, although the other memory of the
\* namespace has the type asked for
C29_Witness ==
    /\ Succeeded
    /\ ~last.fell_back
    /\ last.calls = <<"ok">>
    /\ Len(last.candidates) = 1
    /\ last.result = <<>>
    /\ last.memory_type # None
    /\ \E r \in Range(Records(last.identity)) :
          PassesFilters(r.metadata, last.memory_type, last.min_importance)

(***************************************************************************)
(* Workflow specification: turns run one after another through the graph,  *)
(* with every combination of failing embedding, index and completion calls.*)
(***************************************************************************)
FlowUtterances == {"hi", "i am important"}

FlowRun == \E user_input \in FlowUtterances : run(user_input)

TurnStep ==
    \/ process_input_node
    \/ retrieve_memories_node
    \/ generate_response_node
    \/ analyze_memory_node
    \/ store_memory_node
    \/ finalize_node
    \/ run_return

NextFlow ==
    \/ FlowRun
    \/ process_input_node
    \/ retrieve_memories_node
    \/ generate_response_node
    \/ analyze_memory_node
    \/ store_memory_node
    \/ finalize_node
    \/ run_return

SpecFlow == Init /\ [][NextFlow]_vars

\* The event loop resumes a turn that can take a step: a call returns or raises.
SpecFlowFair == Init /\ [][NextFlow]_vars /\ WF_vars(TurnStep)

ResultFields ==
    {"response", "relevant_memories", "memory_suggestions", "stored_memory_ids",
     "error", "short_term_context"}

Returned == pc = "idle" /\ result # NoTurn

\* C4: every turn that starts terminates with finalize visited and a returned
\* result holding the six fields, whatever calls failed on the way.
C4_EveryTurnCompletes ==
    (pc # "idle") ~>
        (Returned /\ DOMAIN result = ResultFields
            /\ \E i \in 1..Len(visited) : visited[i] = "finalize")

C4_Witness ==
    /\ Returned
    /\ DOMAIN result = ResultFields
    /\ failures = {"retrieve_memories", "generate_response", "store_memory"}
    /\ visited[Len(visited)] = "finalize"

StagesWithStore ==
    <<"process_input", "retrieve_memories", "generate_response", "analyze_memory",
      "store_memory", "finalize">>
StagesWithSkip ==
    <<"process_input", "retrieve_memories", "generate_response", "analyze_memory",
      "finalize">>

IsPrefix(s, t) == Len(s) <= Len(t) /\ s = SubSeq(t, 1, Len(s))

\* C5: the stages of a turn run in the fixed order, and store_memory is among
\* them exactly when the analyzer produced a suggestion, whatever the error field.
C5_StageOrderAndGuard ==
    /\ IsPrefix(visited, StagesWithStore) \/ IsPrefix(visited, StagesWithSkip)
    /\ Returned =>
          visited = (IF Len(result.memory_suggestions) >= 1
                        THEN StagesWithStore ELSE StagesWithSkip)

C5_Witness ==
    /\ Returned
    /\ result.error # None
    /\ Len(result.memory_suggestions) >= 1
    /\ visited = StagesWithStore

\* C6: whenever the work of a stage failed during a turn, the result returned
\* for the turn has a non-null error field.
C6_ErrorsCaptured ==
    (Returned /\ failures # {}) => result.error # None

Visited(node) == \E i \in 1..Len(visited) : visited[i] = node

\* C24: a generation failure degrades, it does not abort: when the completion
\* call failed during generate_response, the response is exactly the fixed
\* apology string and the error field is set from then on, and the turn
\* ends only after analyze_memory has run, and store_memory too when the
\* analyzer produced suggestions.
C24_GenerationFailureDegrades ==
    "generate_response" \in failures =>
        /\ state.agent_response = GenerateApology
        /\ state.error # None
        /\ pc \in {"END", "idle"} =>
              /\ Visited("analyze_memory")
              /\ Len(state.memory_suggestions) >= 1 => Visited("store_memory")
        /\ Returned =>
              /\ result.response = GenerateApology
              /\ result.error # None

\* a returned turn whose completion call failed and whose suggestion was stored
C24_Witness ==
    /\ Returned
    /\ "generate_response" \in failures
    /\ result.response = GenerateApology
    /\ Len(result.stored_memory_ids) >= 1
    /\ Visited("store_memory")

\* the records the step added to the agent's collection, oldest first
AddedRecords ==
    LET before == collections[NameOf(AgentIdentity)]
        after == collections'[NameOf(AgentIdentity)]
    IN  SubSeq(after, Len(before) + 1, Len(after))

\* C30: the store_memory stage attempts every suggestion in order: the ids it
\* leaves in stored_memory_ids are exactly the ids of the records added, which
\* hold suggestions in suggestion order; the last suggestion is attempted
\* whatever happened to the earlier ones; there are at most as many ids as
\* suggestions and at most three suggestions; and a turn that took the skip
\* branch returns no stored id.
C30_StoreStage ==
    [][ /\ (pc = "store_memory" /\ pc' = "finalize") =>
              LET suggestions == state.memory_suggestions
                  ids == state'.stored_memory_ids
                  added == AddedRecords
              IN  /\ Len(ids) = Len(added)
                  /\ \A k \in 1..Len(ids) : ids[k] = added[k].id
                  /\ \E f \in [1..Len(added) -> 1..Len(suggestions)] :
                        /\ \A j, k \in 1..Len(added) : j < k => f[j] < f[k]
                        /\ \A k \in 1..Len(added) :
                              /\ added[k].text = suggestions[f[k]].content
                              /\ added[k].metadata =
                                    StoreMetadata(SuggestionArgs(suggestions[f[k]]), now)
                  /\ last'.op = "store"
                  /\ last'.args = SuggestionArgs(suggestions[Len(suggestions)])
                  /\ Len(ids) <= Len(suggestions)
                  /\ Len(suggestions) <= 3
        /\ (pc = "END" /\ pc' = "idle" /\ ~Visited("store_memory")) =>
              result'.stored_memory_ids = <<>>
      ]_vars

\* the first of two suggestions failed to store and the second was stored:
\* the turn returns the id of the second alone
C30_Witness ==
    /\ Returned
    /\ Len(result.memory_suggestions) = 2
    /\ Len(result.stored_memory_ids) = 1
    /\ "store_memory" \in failures
    /\ LET records == collections[NameOf(AgentIdentity)]
       IN  /\ Len(records) >= 1
           /\ records[Len(records)].id = result.stored_memory_ids[1]
           /\ records[Len(records)].metadata.importance
                 = Clamp(result.memory_suggestions[2].importance)

(***************************************************************************)
(* Store specification: every way of storing a memory (direct, the three   *)
(* convenience variants, a suggestion of the analyzer) with importances    *)
(* below, inside and above [0,1], and retrieval, with calls that may raise.*)
(***************************************************************************)
StoreImportances == {0 - 3, 5, 17}
StoreQueries == {"q1"}

\* a store call that fails adds nothing, so only the successes are bounded
MayStore(outcome) == outcome = "ok" => Len(stored) < MaxRecords

StDirect ==
    \E p \in OneIdentity, importance \in StoreImportances, outcome \in CallOutcomes :
        /\ MayStore(outcome)
        /\ Store(p, StoreArgs("c1", "fact", importance, <<>>, None, None), outcome)

StSummary ==
    \E p \in OneIdentity, outcome \in CallOutcomes :
        /\ MayStore(outcome)
        /\ store_conversation_summary(p, "c2", None, 17, outcome)
        /\ UNCHANGED <<now, flowVars, registryVars>>

StPreference ==
    \E p \in OneIdentity, outcome \in CallOutcomes :
        /\ MayStore(outcome)
        /\ store_user_preference(p, "c3", None, outcome)
        /\ UNCHANGED <<now, flowVars, registryVars>>

StFact ==
    \E p \in OneIdentity, outcome \in CallOutcomes :
        /\ MayStore(outcome)
        /\ store_fact(p, "c3", None, 0 - 3, outcome)
        /\ UNCHANGED <<now, flowVars, registryVars>>

StSuggestion ==
    \E p \in OneIdentity, user_message \in Utterances, outcome \in CallOutcomes :
        \E i \in 1..Len(analyze_for_memory_storage(user_message, Completion, <<>>)) :
            /\ MayStore(outcome)
            /\ store_memory_suggestion(
                   p, analyze_for_memory_storage(user_message, Completion, <<>>)[i],
                   outcome)
            /\ UNCHANGED <<now, flowVars, registryVars>>

StRetrieve ==
    \E p \in OneIdentity, q \in StoreQueries :
        Retrieve(p, q, None, NoNumber, NoNumber, CallOutcomes)

NextStore ==
    \/ StDirect
    \/ StSummary
    \/ StPreference
    \/ StFact
    \/ StSuggestion
    \/ StRetrieve

SpecStore == Init /\ [][NextStore]_vars

\* C3: a retrieve whose embedding or index call raises returns the empty list
\* and raises nothing, and no retrieve raises; a store whose embedding or
\* index call raises raises to its caller.
C3_Degradation ==
    /\ last.op = "retrieve" => ~last.raised
    /\ (last.op = "retrieve" /\ last.failed) => last.result = <<>>
    /\ (last.op = "store" /\ last.call # "ok") => last.raised

C3_Witness ==
    /\ last.op = "retrieve"
    /\ last.failed
    /\ Held >= 1
    /\ last.result = <<>>
    /\ ~last.raised

AllRecords == UNION {Range(collections[name]) : name \in DOMAIN collections}

NearestBound(importance) ==
    IF importance < 0 THEN 0 ELSE IF importance > 10 THEN 10 ELSE importance

\* C7: every record in the store has its importance in [0,1], and it is the
\* bound of [0,1] nearest to the importance its store call was given.
C7_ImportanceClamped ==
    \A r \in AllRecords :
        /\ r.metadata.importance \in 0..10
        /\ r.metadata.importance = NearestBound(stored[r.id].args.importance)

C7_Witness ==
    /\ \E r \in AllRecords :
            stored[r.id].args.importance < 0 /\ r.metadata.importance = 0
    /\ \E r \in AllRecords :
            stored[r.id].args.importance > 10 /\ r.metadata.importance = 10

(***************************************************************************)
(* Round-trip specification: one memory stored with every shape of         *)
(* metadata, then read back by id as time passes.                          *)
(***************************************************************************)
RoundTripTags == {<<>>, <<"a">>, <<"a", "b">>, <<"a,b">>}
RoundTripContexts == {None, "ctx"}
RoundTripSources == {None, "src"}
RoundTripImportances == {0, 5}

RtStore ==
    \E p \in OneIdentity, tags \in RoundTripTags, context \in RoundTripContexts,
       source \in RoundTripSources, importance \in RoundTripImportances :
        /\ Len(stored) < MaxRoundTrips
        /\ Store(p, StoreArgs("c1", "fact", importance, tags, context, source), "ok")

RtGetById ==
    \E p \in OneIdentity, id \in 1..Len(stored), outcome \in CallOutcomes :
        GetById(p, id, outcome)

RtTick ==
    /\ now < MaxTime
    /\ now' = now + 1
    /\ UNCHANGED <<collections, stored, last, flowVars, registryVars>>

NextRoundTrip ==
    \/ RtStore
    \/ RtGetById
    \/ RtTick

SpecRoundTrip == Init /\ [][NextRoundTrip]_vars

Preserved(dict, key, value) == value # None => (key \in DOMAIN dict /\ dict[key] = value)

\* C8: get_by_id on the id a store call returned yields the stored content and
\* every non-null metadata field of the store call, with tags as the same
\* ordered collection of strings.
C8_RoundTrip ==
    (last.op = "get_by_id" /\ last.found) =>
        LET args == stored[last.id].args
        IN  /\ last.result.content = args.content
            /\ last.result.memory_type = args.memory_type
            /\ last.result.importance = args.importance
            /\ Preserved(last.result, "context", args.context)
            /\ Preserved(last.result, "source", args.source)
            /\ SameValue(last.result.tags, PyList(args.tags))

(***************************************************************************)
(* Registry specification: one registry instance on which users and        *)
(* sessions are created, touched, ended, expired and deleted while hours   *)
(* pass.  Every write to the data directory succeeds.                      *)
(***************************************************************************)
RegistryUsernames == {"ann"}
RegistryUserIds == {UserId(n) : n \in 0..MaxUsers}
RegistrySessionIds == {SessionId(n) : n \in 0..MaxSessions}
RegistryMaxAges == {0, 1}

memoryVars == <<collections, stored, now, flowVars>>

RegCreateUser ==
    \E username \in RegistryUsernames :
        /\ issued.users < MaxUsers
        /\ create_user("r1", username, "ok")
        /\ UNCHANGED memoryVars

RegCreateSession ==
    \E user_id \in RegistryUserIds :
        /\ issued.sessions < MaxSessions
        /\ create_session("r1", user_id, "ok", "ok")
        /\ UNCHANGED memoryVars

RegUpdateActivity ==
    \E session_id \in RegistrySessionIds :
        /\ update_session_activity("r1", session_id, "ok")
        /\ UNCHANGED memoryVars

RegEndSession ==
    \E session_id \in RegistrySessionIds :
        /\ end_session("r1", session_id, "ok")
        /\ UNCHANGED memoryVars

RegCleanup ==
    \E max_age_hours \in RegistryMaxAges :
        /\ cleanup_old_sessions("r1", max_age_hours, "ok")
        /\ UNCHANGED memoryVars

RegDeleteUser ==
    \E user_id \in RegistryUserIds :
        /\ delete_user("r1", user_id, "ok", "ok")
        /\ UNCHANGED memoryVars

RegFindUser ==
    \E username \in RegistryUsernames \cup {"bob"} :
        /\ FindUser("r1", username)
        /\ UNCHANGED memoryVars

\* an hour passes between two calls
RegTick ==
    /\ now < MaxHours * 3600
    /\ now' = now + 3600
    /\ last' = [op |-> "tick"]
    /\ UNCHANGED <<collections, stored, flowVars, registryVars>>

NextRegistry ==
    \/ RegCreateUser
    \/ RegCreateSession
    \/ RegUpdateActivity
    \/ RegEndSession
    \/ RegCleanup
    \/ RegDeleteUser
    \/ RegFindUser
    \/ RegTick

SpecRegistry == Init /\ [][NextRegistry]_vars

\* The users and sessions maps of the instance a call was made on, before
\* and after the call.
UsersBefore == registries[last'.instance].users
UsersAfter == registries'[last'.instance].users
SessionsBefore == registries[last'.instance].sessions
SessionsAfter == registries'[last'.instance].sessions

\* C16: after delete_user(u) on a known user u that has N sessions, the
\* registry holds no user u and no session whose user_id is u, and every
\* other user and every other session is unchanged.
C16_DeleteUserCascades ==
    [][(last'.op = "delete_user" /\ last'.user_id \in DOMAIN UsersBefore) =>
          LET u == last'.user_id
              others == {s \in DOMAIN SessionsBefore : SessionsBefore[s].user_id # u}
          IN  /\ last'.returned = TRUE
              /\ u \notin DOMAIN UsersAfter
              /\ \A s \in DOMAIN SessionsAfter : SessionsAfter[s].user_id # u
              /\ DOMAIN UsersAfter = DOMAIN UsersBefore \ {u}
              /\ \A v \in DOMAIN UsersAfter : UsersAfter[v] = UsersBefore[v]
              /\ DOMAIN SessionsAfter = others
              /\ \A s \in others : SessionsAfter[s] = SessionsBefore[s]]_vars

\* a user with a session has just been deleted while another user's session
\* stays in the registry
C16_Witness ==
    /\ last.op = "delete_user"
    /\ last.returned = TRUE
    /\ last.logged >= 1
    /\ registries[last.instance].sessions # EmptyDict

\* C17: after any sequence of create_user, create_session,
\* update_session_activity, end_session, cleanup_old_sessions and
\* delete_user on one registry instance, every session's user_id is a key of
\* the users map.
C17_SessionsReferenceUsers ==
    \A r \in RegistryInstances :
        \A s \in DOMAIN registries[r].sessions :
            registries[r].sessions[s].user_id \in DOMAIN registries[r].users

\* every operation has been used: both ids were issued, one session was
\* removed by a deletion of its user, and a session of the other user is held
C17_Witness ==
    /\ issued.users = MaxUsers
    /\ issued.sessions = MaxSessions
    /\ last.op = "delete_user"
    /\ last.returned = TRUE
    /\ Cardinality(DOMAIN registries["r1"].sessions) = MaxSessions - 1
    /\ Cardinality(DOMAIN registries["r1"].users) = MaxUsers - 1

\* C18: create_session with a user_id that is not a key of the users map
\* fails with the not-found error and leaves the registry unchanged: no
\* session is added, no user's total_sessions or last_login changes, and
\* nothing is written to the data directory.
C18_UnknownUserRejected ==
    [][(last'.op = "create_session" /\ last'.user_id \notin DOMAIN UsersBefore) =>
          /\ last'.raised
          /\ last'.error = "User " \o last'.user_id \o " not found"
          /\ registries' = registries
          /\ last'.writes = <<>>
          /\ files' = files]_vars

\* the call was refused while the registry held a user and a session
C18_Witness ==
    /\ last.op = "create_session"
    /\ last.raised
    /\ registries[last.instance].users # EmptyDict
    /\ registries[last.instance].sessions # EmptyDict

\* C19: a successful create_session(u) adds exactly one new session, which
\* references u, adds one to u's total_sessions and sets u's last_login to
\* the time of the call; u's other fields, every other user and every
\* existing session are unchanged.
C19_CreateSessionFrame ==
    [][(last'.op = "create_session" /\ last'.user_id \in DOMAIN UsersBefore) =>
          LET u == last'.user_id
              sid == last'.result
          IN  /\ ~last'.raised
              /\ sid \notin DOMAIN SessionsBefore
              /\ DOMAIN SessionsAfter = DOMAIN SessionsBefore \cup {sid}
              /\ SessionsAfter[sid].user_id = u
              /\ SessionsAfter[sid].session_id = sid
              /\ \A s \in DOMAIN SessionsBefore : SessionsAfter[s] = SessionsBefore[s]
              /\ DOMAIN UsersAfter = DOMAIN UsersBefore
              /\ UsersAfter[u] = [UsersBefore[u] EXCEPT
                                     !.total_sessions = @ + 1, !.last_login = now]
              /\ \A v \in DOMAIN UsersBefore \ {u} : UsersAfter[v] = UsersBefore[v]]_vars

\* a second session was opened, an hour after the first, for a user while
\* another user exists
C19_Witness ==
    /\ last.op = "create_session"
    /\ ~last.raised
    /\ Cardinality(DOMAIN registries[last.instance].users) = 2
    /\ registries[last.instance].users[last.user_id].total_sessions = 2
    /\ registries[last.instance].users[last.user_id].last_login
           > registries[last.instance].users[last.user_id].created_at

\* C20: end_session(s) on an existing session removes exactly s; the users
\* map is unchanged (total_sessions is not decremented) and every other
\* session is unchanged.
C20_EndSessionFrame ==
    [][(last'.op = "end_session" /\ last'.session_id \in DOMAIN SessionsBefore) =>
          /\ last'.returned = TRUE
          /\ DOMAIN SessionsAfter = DOMAIN SessionsBefore \ {last'.session_id}
          /\ \A s \in DOMAIN SessionsAfter : SessionsAfter[s] = SessionsBefore[s]
          /\ UsersAfter = UsersBefore]_vars

\* a session was ended, another one stays, and its user still counts both
C20_Witness ==
    /\ last.op = "end_session"
    /\ last.returned = TRUE
    /\ Cardinality(DOMAIN registries[last.instance].sessions) = 1
    /\ \E u \in DOMAIN registries[last.instance].users :
           registries[last.instance].users[u].total_sessions = 2

\* C21: cleanup_old_sessions(max_age) removes exactly the sessions whose
\* last_activity is earlier than now minus max_age, keeps every other session
\* (one whose last_activity equals the cutoff included), leaves the users map
\* unchanged and returns the number of sessions it removed.
C21_CleanupExact ==
    [][last'.op = "cleanup_old_sessions" =>
          LET cutoff == now - last'.max_age_hours * 3600
              old == {s \in DOMAIN SessionsBefore : SessionsBefore[s].last_activity < cutoff}
          IN  /\ DOMAIN SessionsAfter = DOMAIN SessionsBefore \ old
              /\ \A s \in DOMAIN SessionsAfter : SessionsAfter[s] = SessionsBefore[s]
              /\ UsersAfter = UsersBefore
              /\ last'.removed = Cardinality(old)]_vars

\* a cleanup removed a session and kept one last active exactly at the cutoff
C21_Witness ==
    /\ last.op = "cleanup_old_sessions"
    /\ last.removed = 1
    /\ \E s \in DOMAIN registries[last.instance].sessions :
          registries[last.instance].sessions[s].last_activity
              = now - last.max_age_hours * 3600

(***************************************************************************)
(* Namespace specification: stores are built one after the other, directly *)
(* or by an agent, with every combination of absent (None), empty and      *)
(* given arguments; a build is recorded together with the one before it.   *)
(***************************************************************************)
NamespaceCollectionNames == {None, "", "x"}
NamespaceUserIds == {None, "", "a", "b"}
NamespaceSessionIds == {None, "", "c", "d"}

Built(collection_name, user_id, session_id) ==
    [collection_name |-> collection_name, identity |-> <<user_id, session_id>>,
     name |-> VectorStoreName(collection_name, user_id, session_id)]

Build(collection_name, user_id, session_id) ==
    /\ last' = [op |-> "build",
                built |-> Built(collection_name, user_id, session_id),
                previous |-> IF last.op = "build" THEN <<last.built>> ELSE <<>>]
    /\ UNCHANGED <<collections, stored, now, flowVars, registryVars>>

NsBuildStore ==
    \E collection_name \in NamespaceCollectionNames, user_id \in NamespaceUserIds,
       session_id \in NamespaceSessionIds :
        Build(collection_name, user_id, session_id)

NsBuildAgent ==
    \E user_id \in NamespaceUserIds, session_id \in NamespaceSessionIds :
        Build(None, user_id, session_id)

NextNamespace ==
    \/ NsBuildStore
    \/ NsBuildAgent

SpecNamespace == Init /\ [][NextNamespace]_vars

\* What the derivation is said to be for one build, given the builds it is
\* compared with.
DerivedFromIdentity(b, others) ==
    /\ ~Truthy(b.identity[1]) => b.name = CHROMA_COLLECTION_NAME
    /\ \A o \in others :
          /\ o.identity = b.identity => o.name = b.name
          /\ (/\ Truthy(b.identity[1])
              /\ o.identity[1] = b.identity[1]
              /\ ~Truthy(b.identity[2])
              /\ ~Truthy(o.identity[2])) => o.name = b.name
          /\ (~Truthy(b.identity[1]) /\ ~Truthy(o.identity[1])) => o.name = b.name

\* A build whose collection_name argument is absent or empty.
Unnamed(b) == ~Truthy(b.collection_name)

\* C13, as stated: the namespace a store targets is a deterministic function
\* of identity: of (user_id, session_id) when both are present, of user_id
\* alone when only user_id is present, and the global default when no user_id
\* is present (also when a session_id is given without a user_id); two stores
\* built with the same identity target the same namespace.
C13_NamespaceOfIdentity ==
    last.op = "build" => DerivedFromIdentity(last.built, Range(last.previous))

\* C13, amended: the same, for stores built without a collection_name, as
\* MemoryAgent builds them; a store built directly with a collection_name and
\* no user_id targets the collection of that name.
C13_NamespaceOfIdentityUnnamed ==
    /\ (last.op = "build" /\ Unnamed(last.built)) =>
          DerivedFromIdentity(last.built,
                              {o \in Range(last.previous) : Unnamed(o)})
    /\ (last.op = "build" /\ ~Unnamed(last.built)
          /\ ~Truthy(last.built.identity[1])) =>
          last.built.name = last.built.collection_name

\* two stores built in a row for a session without a user, neither with a
\* collection_name
C13_Witness ==
    /\ last.op = "build"
    /\ Unnamed(last.built)
    /\ last.built.identity = <<None, "c">>
    /\ \E o \in Range(last.previous) : Unnamed(o) /\ o.identity = <<"", "d">>

(***************************************************************************)
(* Analyzer specification: the analyzer is called with every utterance,    *)
(* response and list of retrieved memories while memories are stored and   *)
(* messages are added to the buffer; a call is recorded together with the  *)
(* call made just before it, if that was one of the analyzer too.          *)
(***************************************************************************)
AnalyzerUtterances ==
    Utterances \cup {"I love pizza and my name is Sam", "Note that I HATE my job"}
AnalyzerResponses == {Completion, "I Like tea"}
AnalyzerMemories == {<<>>, <<[id |-> 1, content |-> "I Like tea", similarity |-> 10]>>}

Analyze(user_message, response, relevant_memories) ==
    /\ last' = [op |-> "analyze", user_message |-> user_message,
                context |-> [response |-> response,
                             relevant_memories |-> relevant_memories,
                             buffer |-> shortTerm,
                             store |-> Records(AgentIdentity)],
                suggestions |-> analyze_for_memory_storage(user_message, response,
                                                           relevant_memories),
                previous |-> IF last.op = "analyze"
                               THEN <<[user_message |-> last.user_message,
                                       context |-> last.context,
                                       suggestions |-> last.suggestions]>>
                               ELSE <<>>]
    /\ UNCHANGED <<collections, stored, now, flowVars, registryVars>>

AnAnalyze ==
    \E user_message \in AnalyzerUtterances, response \in AnalyzerResponses,
       relevant_memories \in AnalyzerMemories :
        Analyze(user_message, response, relevant_memories)

AnStore ==
    /\ Len(stored) < MaxStores
    /\ Store(AgentIdentity, StoreArgs("I Like tea", "preference", 8, <<>>, None, None), "ok")

AnAddMessage ==
    /\ Len(shortTerm) < MaxBuffered
    /\ shortTerm' = add_user_message(shortTerm, "I Like tea")
    /\ last' = [op |-> "add_user_message"]
    /\ UNCHANGED <<collections, stored, now, pc, state, visited, result, turns, failures,
                   registryVars>>

NextAnalyzer ==
    \/ AnAnalyze
    \/ AnStore
    \/ AnAddMessage

SpecAnalyzer == Init /\ [][NextAnalyzer]_vars

\* The rule table: the categories in their order, each with its markers and
\* the type and importance of its suggestion.
Categories ==
    <<[markers |-> preference_keywords, type |-> "preference", importance |-> 8],
      [markers |-> personal_keywords, type |-> "fact", importance |-> 9],
      [markers |-> fact_keywords, type |-> "fact", importance |-> 8]>>

\* The categories of which a marker occurs in the lower-cased utterance.
Fired(user_message) ==
    SelectSeq(Categories, LAMBDA c : AnyKeyword(c.markers, user_message))

\* C14: for every utterance the suggestion list holds exactly one suggestion
\* per category whose marker occurs as a substring of the lower-cased
\* utterance -- preference (0.8), personal fact (type fact, 0.9), explicit
\* memory (type fact, 0.8) -- in that order, each with the unmodified
\* utterance as content; categories fire independently, so "I love pizza and
\* my name is Sam" yields at least two suggestions, and an utterance without
\* a marker yields none.
C14_RuleTable ==
    last.op = "analyze" =>
        LET fired == Fired(last.user_message)
        IN  /\ Len(last.suggestions) = Len(fired)
            /\ \A i \in 1..Len(fired) :
                  /\ last.suggestions[i].type = fired[i].type
                  /\ last.suggestions[i].importance = fired[i].importance
                  /\ last.suggestions[i].content = last.user_message
            /\ last.user_message = "I love pizza and my name is Sam" =>
                  Len(last.suggestions) >= 2
            /\ last.user_message = "hi" => last.suggestions = <<>>

\* the utterance with a preference marker and a personal-fact marker was
\* analyzed and gave a preference followed by a fact
C14_Witness ==
    /\ last.op = "analyze"
    /\ last.user_message = "I love pizza and my name is Sam"
    /\ Len(last.suggestions) = 2
    /\ last.suggestions[1].type = "preference"
    /\ last.suggestions[2].importance = 9

\* C15: the suggestions depend only on the user utterance: two analyzer runs
\* with the same utterance return the same suggestions whatever the
\* generated response, the retrieved memories, the short-term buffer and the
\* long-term store contain (a run gives what the run with the same utterance,
\* an empty response, no retrieved memory, an empty buffer and an empty store
\* gives, and what the run before it gave for the same utterance); and the
\* analyzer changes no state.
C15_AnalyzerDeterminism ==
    [][last'.op = "analyze" =>
          /\ last'.suggestions = analyze_for_memory_storage(last'.user_message, "", <<>>)
          /\ \A before \in Range(last'.previous) :
                before.user_message = last'.user_message =>
                    before.suggestions = last'.suggestions
          /\ UNCHANGED <<collections, stored, shortTerm, registries, files, state>>]_vars

\* the same utterance, with a marker, was analyzed twice in a row, with
\* another response and other retrieved memories, the second time with the
\* utterance itself among the retrieved memories, a message in the buffer and
\* a memory in the store
C15_Witness ==
    /\ last.op = "analyze"
    /\ last.suggestions # <<>>
    /\ last.context.buffer # <<>>
    /\ last.context.store # <<>>
    /\ \E i \in 1..Len(last.context.relevant_memories) :
          last.context.relevant_memories[i].content = last.user_message
    /\ \E before \in Range(last.previous) :
          /\ before.user_message = last.user_message
          /\ before.context.response # last.context.response
          /\ before.context.relevant_memories # last.context.relevant_memories

(***************************************************************************)
(* Persistence specification: memories are stored, looked up, deleted and  *)
(* cleared through the stores of two identities, an agent runs turns, its  *)
(* buffer is cleared, and users and sessions come and go in the registry.  *)
(* The application awaits a turn before it makes its next call.            *)
(***************************************************************************)
PersistenceIdentities == OneIdentity \cup {AgentIdentity}
PersistenceUtterances == {"I Like tea"}

PerStore ==
    \E p \in PersistenceIdentities :
        /\ pc = "idle"
        /\ Cardinality({i \in 1..Len(stored) : stored[i].args.content = "c1"}) < MaxEach
        /\ Store(p, StoreArgs("c1", "fact", 5, <<>>, None, None), "ok")

PerGetById ==
    \E p \in PersistenceIdentities, id \in 1..Len(stored) :
        /\ pc = "idle"
        /\ GetById(p, id, "ok")

PerDelete ==
    \E p \in PersistenceIdentities, id \in 1..Len(stored) :
        /\ pc = "idle"
        /\ Delete(p, id, "ok")

PerClearAll ==
    \E p \in PersistenceIdentities :
        /\ pc = "idle"
        /\ ClearAll(p, "ok")

PerRun ==
    \E user_input \in PersistenceUtterances :
        /\ turns < MaxEach
        /\ run(user_input)

PerClearBuffer ==
    /\ pc = "idle"
    /\ clear_short_term_memory

PerCreateUser ==
    /\ pc = "idle"
    /\ issued.users < MaxEach
    /\ create_user("r1", "ann", "ok")
    /\ UNCHANGED memoryVars

PerCreateSession ==
    \E user_id \in DOMAIN registries["r1"].users :
        /\ pc = "idle"
        /\ issued.sessions < MaxEach
        /\ create_session("r1", user_id, "ok", "ok")
        /\ UNCHANGED memoryVars

PerEndSession ==
    \E session_id \in DOMAIN registries["r1"].sessions :
        /\ pc = "idle"
        /\ end_session("r1", session_id, "ok")
        /\ UNCHANGED memoryVars

PerCleanup ==
    /\ pc = "idle"
    /\ cleanup_old_sessions("r1", 0, "ok")
    /\ UNCHANGED memoryVars

PerDeleteUser ==
    \E user_id \in DOMAIN registries["r1"].users :
        /\ pc = "idle"
        /\ delete_user("r1", user_id, "ok", "ok")
        /\ UNCHANGED memoryVars

PerTick ==
    /\ pc = "idle"
    /\ RegTick

NextPersistence ==
    \/ PerStore
    \/ PerGetById
    \/ PerDelete
    \/ PerClearAll
    \/ PerRun
    \/ TurnStep
    \/ PerClearBuffer
    \/ PerCreateUser
    \/ PerCreateSession
    \/ PerEndSession
    \/ PerCleanup
    \/ PerDeleteUser
    \/ PerTick

SpecPersistence == Init /\ [][NextPersistence]_vars

\* get_memory_by_id on the collection would find the memory.
Retrievable(records, memory_id) == Lookup(records, memory_id) # <<>>

\* The step is a delete of the memory, or a clear_all, called on the namespace.
Removal(name, memory_id) ==
    \/ /\ last'.op = "delete"
       /\ last'.id = memory_id
       /\ NameOf(last'.identity) = name
    \/ /\ last'.op = "clear_all"
       /\ NameOf(last'.identity) = name

\* C12: memories are never deleted automatically: a memory stored in
\* namespace N stays retrievable by id in N until delete(id) or clear_all is
\* called on N; no other operation removes it -- not a workflow turn, a
\* retrieval, another store, the clearing of the short-term buffer, an
\* operation on another namespace, nor end_session, cleanup_old_sessions or
\* delete_user in the registry.
C12_NeverDeletedAutomatically ==
    [][\A name \in Names : \A memory_id \in 1..Len(stored) :
          (/\ Retrievable(collections[name], memory_id)
           /\ ~Retrievable(collections'[name], memory_id)) => Removal(name, memory_id)]_vars

\* a memory stored before a user was deleted from the registry is still
\* held in its namespace, next to one that a turn of the agent stored
C12_Witness ==
    /\ last.op = "delete_user"
    /\ last.returned = TRUE
    /\ Retrievable(collections[NameOf(<<"a", "c">>)], 1)
    /\ turns >= 1
    /\ pc = "idle"
    /\ shortTerm = <<>>
    /\ Retrievable(collections[NameOf(AgentIdentity)], 2)

(***************************************************************************)
(* Durability specification: one registry instance whose writes to the     *)
(* data directory may fail, and which may be opened again on the           *)
(* directory.  No time passes.                                             *)
(***************************************************************************)
DurableUserIds == {UserId(n) : n \in 0..MaxEach}
DurableSessionIds == {SessionId(n) : n \in 0..MaxEach}
\* a negative age puts the cutoff in the future: every session is old
DurableMaxAges == {0, 0 - 1}

DurCreateUser ==
    \E outcome \in SaveOutcomes :
        /\ issued.users < MaxEach
        /\ create_user("r1", "ann", outcome)
        /\ UNCHANGED memoryVars

DurCreateSession ==
    \E user_id \in DurableUserIds, saveSessions \in SaveOutcomes,
       saveUsers \in SaveOutcomes :
        /\ issued.sessions < MaxEach
        /\ create_session("r1", user_id, saveSessions, saveUsers)
        /\ UNCHANGED memoryVars

DurUpdateActivity ==
    \E session_id \in DurableSessionIds, outcome \in SaveOutcomes :
        /\ update_session_activity("r1", session_id, outcome)
        /\ UNCHANGED memoryVars

DurEndSession ==
    \E session_id \in DurableSessionIds, outcome \in SaveOutcomes :
        /\ end_session("r1", session_id, outcome)
        /\ UNCHANGED memoryVars

DurCleanup ==
    \E max_age_hours \in DurableMaxAges, outcome \in SaveOutcomes :
        /\ cleanup_old_sessions("r1", max_age_hours, outcome)
        /\ UNCHANGED memoryVars

DurDeleteUser ==
    \E user_id \in DurableUserIds, saveUsers \in SaveOutcomes,
       saveSessions \in SaveOutcomes :
        /\ delete_user("r1", user_id, saveUsers, saveSessions)
        /\ UNCHANGED memoryVars

DurOpen ==
    /\ Open("r1")
    /\ UNCHANGED memoryVars

NextDurable ==
    \/ DurCreateUser
    \/ DurCreateSession
    \/ DurUpdateActivity
    \/ DurEndSession
    \/ DurCleanup
    \/ DurDeleteUser
    \/ DurOpen

SpecDurable == Init /\ [][NextDurable]_vars

MutatingCalls ==
    {"create_user", "create_session", "update_session_activity", "end_session",
     "cleanup_old_sessions", "delete_user"}

\* What an instance opened now on the data directory would hold is what
\* instance r holds.
Persisted(r) ==
    /\ Load(files.users) = registries[r].users
    /\ Load(files.sessions) = registries[r].sessions

Namesakes == {u \in DOMAIN UsersAfter : UsersAfter[u].username = last'.username}
\* the position of a user id in the order of creation
CreatedNth(user_id) == CHOOSE n \in 1..issued.users : UserId(n) = user_id

\* C27: username uniqueness is not enforced: create_user with a username
\* already in use succeeds and adds a second, distinct user record without
\* changing an existing one, and find_user_by_username returns the
\* earliest-created user that has the username, and nothing when no user has it.
C27_UsernamesNotUnique ==
    [][ /\ last'.op = "create_user" =>
              /\ ~last'.raised
              /\ last'.result \notin DOMAIN UsersBefore
              /\ DOMAIN UsersAfter = DOMAIN UsersBefore \cup {last'.result}
              /\ UsersAfter[last'.result].username = last'.username
              /\ \A u \in DOMAIN UsersBefore : UsersAfter[u] = UsersBefore[u]
        /\ last'.op = "find_user_by_username" =>
              IF Namesakes = {}
                THEN last'.result = None
                ELSE /\ last'.result \in Namesakes
                     /\ \A u \in Namesakes : CreatedNth(last'.result) <= CreatedNth(u)
      ]_vars

\* two users share a username and the lookup has returned the first created
C27_Witness ==
    /\ last.op = "find_user_by_username"
    /\ last.result = UserId(1)
    /\ UserId(2) \in DOMAIN registries["r1"].users
    /\ registries["r1"].users[UserId(2)].username = last.username
    /\ registries["r1"].users[UserId(1)].username = last.username

(***************************************************************************)
(* Writers specification: two registry instances on one data directory,    *)
(* both opened while it was empty.  Either creates users and sessions and  *)
(* may be opened again; every write succeeds; no time passes.              *)
(***************************************************************************)
WrCreateUser ==
    \E r \in RegistryInstances :
        /\ issued.users < MaxUsers
        /\ create_user(r, "ann", "ok")
        /\ UNCHANGED memoryVars

WrCreateSession ==
    \E r \in RegistryInstances : \E user_id \in DOMAIN registries[r].users :
        /\ issued.sessions < MaxEach
        /\ create_session(r, user_id, "ok", "ok")
        /\ UNCHANGED memoryVars

WrOpen ==
    \E r \in RegistryInstances :
        /\ Open(r)
        /\ UNCHANGED memoryVars

NextWriters ==
    \/ WrCreateUser
    \/ WrCreateSession
    \/ WrOpen

SpecWriters == Init /\ [][NextWriters]_vars

\* Instance r is the only one that has written: the others hold nothing.
SingleWriter(r) == \A o \in RegistryInstances \ {r} : registries[o] = EmptyRegistry

\* C23: with two registry instances on the same data directory that have
\* both loaded the files, there is an interleaving in which a user or session
\* persisted by one instance is overwritten and absent from the persisted
\* file after the other instance persists its own mutation; with a single
\* writer no update is lost: the files hold what the writer holds.
C23_SingleWriterLosesNothing ==
    \A r \in RegistryInstances : SingleWriter(r) => Persisted(r)

\* the lost update: the second instance has just persisted its own user, and
\* a user that the first instance created, persisted and still holds is
\* absent from the users file
C23_Witness ==
    /\ last.op = "create_user"
    /\ last.instance = "r2"
    /\ last.saved = <<"ok">>
    /\ \E u \in DOMAIN registries["r1"].users :
          /\ u \notin DOMAIN registries["r2"].users
          /\ u \notin DOMAIN Load(files.users)

(***************************************************************************)
(* Buffer specification: messages are added to the short-term buffer as    *)
(* the turns add them, a user message or an assistant message at a time,   *)
(* past the cap, and the buffer is cleared at any moment.  The n-th        *)
(* message added since the buffer was last empty has the content "m<n>".   *)
(***************************************************************************)
Inserted == IF last.op = "add_message" THEN last.n ELSE 0
MessageText(n) == "m" \o ToString(n)

BufAddUser ==
    /\ Inserted < MaxMessages
    /\ shortTerm' = add_user_message(shortTerm, MessageText(Inserted + 1))
    /\ last' = [op |-> "add_message", n |-> Inserted + 1]
    /\ UNCHANGED <<collections, stored, now, pc, state, visited, result, turns, failures,
                   registryVars>>

BufAddAssistant ==
    /\ Inserted < MaxMessages
    /\ shortTerm' = add_assistant_message(shortTerm, MessageText(Inserted + 1))
    /\ last' = [op |-> "add_message", n |-> Inserted + 1]
    /\ UNCHANGED <<collections, stored, now, pc, state, visited, result, turns, failures,
                   registryVars>>

BufClear == clear_short_term_memory

NextBuffer ==
    \/ BufAddUser
    \/ BufAddAssistant
    \/ BufClear

SpecBuffer == Init /\ [][NextBuffer]_vars

\* C25: the buffer never holds more than the cap; after n messages were added
\* to an empty buffer it holds the min(n, cap) most recently added, in the
\* order they were added, so past the cap exactly cap remain and the oldest
\* were evicted first.
C25_BufferCap ==
    /\ Len(shortTerm) <= SHORT_TERM_MEMORY_SIZE
    /\ last.op = "add_message" =>
          /\ Len(shortTerm) = Min(last.n, SHORT_TERM_MEMORY_SIZE)
          /\ \A i \in 1..Len(shortTerm) :
                shortTerm[i].content = MessageText(last.n - Len(shortTerm) + i)

\* cap + 2 messages were added: the first two are gone
C25_Witness ==
    /\ last.op = "add_message"
    /\ last.n = SHORT_TERM_MEMORY_SIZE + 2
    /\ Len(shortTerm) = SHORT_TERM_MEMORY_SIZE
    /\ shortTerm[1].content = MessageText(3)
    /\ shortTerm[SHORT_TERM_MEMORY_SIZE].content = MessageText(SHORT_TERM_MEMORY_SIZE + 2)

\* C26: clearing the short-term buffer empties it whatever it held: after
\* clear_short_term_memory the stats report total_messages = 0 and the
\* conversation context is empty.
C26_ClearEmpties ==
    [][last'.op = "clear_short_term_memory" =>
          /\ get_stats(shortTerm').total_messages = 0
          /\ get_conversation_context(shortTerm') = <<>>]_vars

\* a full buffer that has evicted messages has just been cleared
C26_Witness ==
    /\ last.op = "clear_short_term_memory"
    /\ shortTerm = <<>>
    /\ get_stats(shortTerm).total_messages = 0

(***************************************************************************)
(* Storage of the suggestions of a turn (workflow specification).          *)
(***************************************************************************)
AgentRecords == collections[NameOf(AgentIdentity)]

\* C31: nothing is deduplicated on storage: in a turn where all stores succeed
\* the number of records added to the long-term store is the number of
\* analyzer categories the utterance matches (none when the store stage is
\* skipped, which happens exactly when no category matches, and at most
\* three), each with the full utterance as its content and an id no other
\* record has, whether or not the same content is already held.
C31_NoDeduplication ==
    [][ /\ (pc = "store_memory" /\ pc' = "finalize" /\ "store_memory" \notin failures') =>
              /\ Len(AddedRecords) = Len(Fired(state.user_input))
              /\ Len(AddedRecords) <= 3
              /\ \A k \in 1..Len(AddedRecords) :
                    /\ AddedRecords[k].text = state.user_input
                    /\ \A j \in 1..Len(AgentRecords') :
                          AgentRecords'[j].id = AddedRecords[k].id
                              => j = Len(AgentRecords) + k
        /\ pc # "store_memory" => collections' = collections
        /\ pc = "analyze_memory" =>
              (pc' = "finalize" <=> Len(Fired(state.user_input)) = 0)
      ]_vars

\* the same utterance, matching two categories, was sent in two turns whose
\* stores all succeeded: four records with that content and four ids
C31_Witness ==
    /\ Returned
    /\ Len(AgentRecords) = 4
    /\ \A i \in 1..4 : AgentRecords[i].text = result.memory_suggestions[1].content
    /\ Cardinality({AgentRecords[i].id : i \in 1..4}) = 4
    /\ Len(result.stored_memory_ids) = 2

\* the ids of a list of retrieved entries
EntryIds(entries) == {entries[i].id : i \in 1..Len(entries)}

\* C32: within a turn retrieval comes before storage: no memory stored by the
\* store_memory stage of a turn is among the relevant_memories of that turn,
\* during the turn and in its result -- every memory retrieved was stored
\* before every memory the turn stores; a later turn can retrieve it.
C32_RetrievalPrecedesStorage ==
    /\ \A r \in EntryIds(state.relevant_memories) :
          \A k \in 1..Len(state.stored_memory_ids) : r < state.stored_memory_ids[k]
    /\ Returned =>
          /\ EntryIds(result.relevant_memories)
                \cap Range(result.stored_memory_ids) = {}
          /\ result.relevant_memories = state.relevant_memories
          /\ result.stored_memory_ids = state.stored_memory_ids

\* the second turn has retrieved a memory the first turn stored, and has
\* stored memories of its own
C32_Witness ==
    /\ Returned
    /\ turns = 2
    /\ 1 \in EntryIds(result.relevant_memories)
    /\ Len(result.stored_memory_ids) >= 1
    /\ \A k \in 1..Len(result.stored_memory_ids) : result.stored_memory_ids[k] > 1

\* the newest message of a buffer
Newest(buffer) == buffer[Len(buffer)]
UserMessage(content) == [role |-> "user", content |-> content]
AssistantMessage(content) == [role |-> "assistant", content |-> content]
Appended(buffer, message) ==
    /\ shortTerm' # <<>>
    /\ Newest(shortTerm') = message
    /\ Len(buffer) < SHORT_TERM_MEMORY_SIZE => shortTerm' = Append(buffer, message)

\* C33: in every turn process_input appends the user message to the short-term
\* buffer, and generate_response appends the assistant message only when
\* the completion call succeeds; no other stage touches the buffer; so when a
\* turn whose completion call failed returns, the newest message of the
\* buffer is that turn's user message and the apology string is not in it.
C33_BufferPerTurn ==
    [][ /\ pc = "process_input" => Appended(shortTerm, UserMessage(state.user_input))
        /\ pc = "generate_response" =>
              IF "generate_response" \in failures'
                THEN shortTerm' = shortTerm
                ELSE Appended(shortTerm, AssistantMessage(state'.agent_response))
        /\ pc \notin {"process_input", "generate_response"} => shortTerm' = shortTerm
        /\ (pc = "END" /\ pc' = "idle" /\ "generate_response" \in failures) =>
              /\ Newest(shortTerm') = UserMessage(state.user_input)
              /\ \A i \in 1..Len(shortTerm') : shortTerm'[i].content # GenerateApology
              /\ result'.short_term_context = shortTerm'
      ]_vars

\* two turns whose completion calls both failed: the buffer holds two user
\* messages in a row
C33_Witness ==
    /\ Returned
    /\ "generate_response" \in failures
    /\ result.response = GenerateApology
    /\ Len(shortTerm) = 2
    /\ shortTerm[1].role = "user"
    /\ shortTerm[2] = UserMessage(state.user_input)

(***************************************************************************)
(* The index under retrieval (isolation specification).                    *)
(***************************************************************************)
RetrievalOps == {"retrieve", "get_by_type", "get_by_id"}

\* a record of the index is what the store call numbered by its id wrote
AsStored(r) ==
    /\ r.text = stored'[r.id].args.content
    /\ r.metadata = StoreMetadata(stored'[r.id].args, r.metadata.created_at)
    /\ r.metadata.access_count = 0
    /\ r.metadata.last_accessed = r.metadata.created_at

\* the entries a retrieval call returned
Entries(call) ==
    IF call.op = "get_by_id" THEN (IF call.found THEN <<call.result>> ELSE <<>>)
    ELSE call.result

\* C34: retrieval never writes to the index: a retrieve, get_by_id or
\* get_by_type call leaves every collection as it is, so the records of the
\* index, their number and their metadata, access_count and last_accessed
\* included, are what store wrote; the incremented access count is on the
\* returned copy only.
C34_RetrievalDoesNotWrite ==
    [][ /\ last'.op \in RetrievalOps =>
              /\ collections' = collections
              /\ \A i \in 1..Len(Entries(last')) : Entries(last')[i].access_count = 1
        /\ \A name \in Names : \A i \in 1..Len(collections'[name]) :
              AsStored(collections'[name][i])
      ]_vars

\* a record is returned by get_by_id with access_count 1, and the index
\* still holds it with access_count 0
C34_Witness ==
    /\ last.op = "get_by_id"
    /\ last.found
    /\ last.result.access_count = 1
    /\ \E r \in Range(Records(last.identity)) :
          r.id = last.id /\ r.metadata.access_count = 0

(***************************************************************************)
(* Failing stores (store specification).                                   *)
(***************************************************************************)
\* C35: a failed store leaves the namespace unchanged: when the embedding
\* call or the index write fails during store, the exception reaches the
\* caller, no record is added and every record held is unchanged; the call is
\* made once, and a store that succeeds adds exactly one record.
C35_FailedStoreChangesNothing ==
    [][ last'.op = "store" =>
          IF last'.call = "ok"
            THEN /\ ~last'.raised
                 /\ Len(collections'[NameOf(last'.identity)])
                       = Len(collections[NameOf(last'.identity)]) + 1
            ELSE /\ last'.raised
                 /\ collections' = collections
                 /\ stored' = stored
      ]_vars

\* a store has failed on a namespace that holds a record
C35_Witness ==
    /\ last.op = "store"
    /\ last.call # "ok"
    /\ last.raised
    /\ Len(Records(last.identity)) >= 1

(***************************************************************************)
(* Crash specification: one registry instance whose writes succeed, and    *)
(* whose process may be killed at any point of a call that writes both     *)
(* files, after which a new instance is built on the data directory.       *)
(***************************************************************************)
CrCreateUser ==
    /\ issued.users < MaxUsers
    /\ create_user("r1", "ann", "ok")
    /\ UNCHANGED memoryVars

CrCreateSession ==
    \E user_id \in DOMAIN registries["r1"].users :
        /\ issued.sessions < MaxSessions
        /\ create_session("r1", user_id, "ok", "ok")
        /\ UNCHANGED memoryVars

CrEndSession ==
    \E session_id \in DOMAIN registries["r1"].sessions :
        /\ end_session("r1", session_id, "ok")
        /\ UNCHANGED memoryVars

CrDeleteUser ==
    \E user_id \in DOMAIN registries["r1"].users :
        /\ delete_user("r1", user_id, "ok", "ok")
        /\ UNCHANGED memoryVars

CrCreateSessionKilled ==
    \E user_id \in DOMAIN registries["r1"].users, point \in CrashPoints :
        /\ issued.sessions < MaxSessions
        /\ create_sessionKilled("r1", user_id, point)
        /\ UNCHANGED memoryVars

CrDeleteUserKilled ==
    \E user_id \in DOMAIN registries["r1"].users, point \in CrashPoints :
        /\ delete_userKilled("r1", user_id, point)
        /\ UNCHANGED memoryVars

NextCrash ==
    \/ CrCreateUser
    \/ CrCreateSession
    \/ CrEndSession
    \/ CrDeleteUser
    \/ CrCreateSessionKilled
    \/ CrDeleteUserKilled

SpecCrash == Init /\ [][NextCrash]_vars

\* C36: at every point of every registry operation, between the two file
\* writes of create_session and of delete_user included, the persisted
\* sessions file holds no session whose user_id is missing from the persisted
\* users file: a registry loaded after a crash has no orphan session.
C36_CrashConsistent ==
    \A s \in DOMAIN Load(files.sessions) :
        Load(files.sessions)[s].user_id \in DOMAIN Load(files.users)

(***************************************************************************)
(* Calls on unknown ids (durability specification).                        *)
(***************************************************************************)
Untouched == registries' = registries /\ files' = files /\ issued' = issued

\* C37: operations on unknown identifiers change nothing: end_session on a
\* session id and delete_user on a user id that the registry does not hold
\* return False, update_session_activity on an unknown session id returns,
\* and the users map, the sessions map and both persisted files are as they
\* were before the call.
C37_UnknownIdsAreNoOps ==
    [][ /\ (last'.op = "end_session" /\ last'.session_id \notin DOMAIN SessionsBefore) =>
              (last'.returned = FALSE /\ ~last'.raised /\ Untouched)
        /\ (last'.op = "delete_user" /\ last'.user_id \notin DOMAIN UsersBefore) =>
              (last'.returned = FALSE /\ ~last'.raised /\ Untouched)
        /\ (last'.op = "update_session_activity"
              /\ last'.session_id \notin DOMAIN SessionsBefore) =>
              (last'.result = None /\ ~last'.raised /\ Untouched)
      ]_vars

\* end_session has returned False for an id the registry does not hold, while
\* it holds a user whose file was written
C37_Witness ==
    /\ last.op = "end_session"
    /\ last.returned = FALSE
    /\ last.session_id \notin DOMAIN registries[last.instance].sessions
    /\ DOMAIN registries[last.instance].users # {}
    /\ files.users.state = "json"

(***************************************************************************)
(* EmbeddingService.chunk_text.  A str is its sequence of characters, and  *)
(* positions count from 0 as in the code.  `last` holds the call and the   *)
(* loop's variables: start, chunks, and whether the call has returned.     *)
(***************************************************************************)
\* s[a:b]: a negative index counts from the end, and both are clamped
PySlice(s, a, b) ==
    LET Norm(i) == IF i < 0 THEN Max(i + Len(s), 0) ELSE Min(i, Len(s))
    IN  IF Norm(a) >= Norm(b) THEN <<>> ELSE SubSeq(s, Norm(a) + 1, Norm(b))

\* s.rfind(' '): the highest position of a space, or -1
RFindSpace(s) ==
    LET at == {i \in 0..(Len(s) - 1) : s[i + 1] = " "}
    IN  IF at = {} THEN 0 - 1 ELSE CHOOSE i \in at : \A j \in at : j <= i

\* s.strip()
RECURSIVE Strip(_)
Strip(s) ==
    IF s = <<>> THEN s
    ELSE IF Head(s) = " " THEN Strip(Tail(s))
    ELSE IF s[Len(s)] = " " THEN Strip(SubSeq(s, 1, Len(s) - 1))
    ELSE s

\* `value or default` for an optional int
OrDefault(value, default) ==
    IF value = NoNumber \/ value[1] = 0 THEN default ELSE value[1]

\* one pass through the body of `while start < len(text)`: the chunk
\* appended and the next start
ChunkPass(text, chunk_size, overlap, start) ==
    LET end == start + chunk_size
        chunk == PySlice(text, start, end)
        last_space == RFindSpace(chunk)
        breaks == end < Len(text) /\ last_space * 10 > chunk_size * 8
        cut == IF breaks THEN PySlice(chunk, 0, last_space) ELSE chunk
        stop == IF breaks THEN start + last_space ELSE end
    IN  [chunk |-> Strip(cut), start |-> stop - overlap]

\* the call up to the loop: the defaults, and the early return of [text]
chunk_text(text, chunk_size, overlap) ==
    /\ last' = [op |-> "chunk_text", text |-> text,
                chunk_size |-> OrDefault(chunk_size, CHUNK_SIZE),
                overlap |-> OrDefault(overlap, CHUNK_OVERLAP),
                start |-> 0,
                chunks |-> IF Len(text) <= OrDefault(chunk_size, CHUNK_SIZE)
                             THEN <<text>> ELSE <<>>,
                returned |-> Len(text) <= OrDefault(chunk_size, CHUNK_SIZE)]
    /\ UNCHANGED <<collections, stored, now, flowVars, registryVars>>

\* the loop: `while start < len(text)`, one pass, `if start >= len(text): break`
chunk_text_loop ==
    /\ last.op = "chunk_text"
    /\ ~last.returned
    /\ Len(last.chunks) < MaxChunks
    /\ IF last.start < Len(last.text)
         THEN LET pass == ChunkPass(last.text, last.chunk_size, last.overlap, last.start)
              IN  last' = [last EXCEPT !.chunks = Append(@, pass.chunk),
                                       !.start = pass.start,
                                       !.returned = pass.start >= Len(last.text)]
         ELSE last' = [last EXCEPT !.returned = TRUE]
    /\ UNCHANGED <<collections, stored, now, flowVars, registryVars>>

(***************************************************************************)
(* Chunking specification: texts with and without spaces, every chunk size *)
(* up to the largest, every overlap from 0 to below the chunk size.        *)
(***************************************************************************)
Fill(n, ch) == [i \in 1..n |-> ch]
ChunkTexts ==
    {<<>>,
     Fill(2, "a") \o <<" ">> \o Fill(2, "b"),
     Fill(5, "a") \o <<" ">> \o Fill(4, "b"),
     Fill(3, " ") \o Fill(9, "a"),
     Fill(12, "a")}

ChunkCall ==
    \E text \in ChunkTexts, chunk_size \in 1..MaxChunkSize :
      \E overlap \in 0..(chunk_size - 1) :
        /\ last.op = "chunk_text" => last.returned
        /\ chunk_text(text, Some(chunk_size), Some(overlap))

NextChunk ==
    \/ ChunkCall
    \/ chunk_text_loop

SpecChunk == Init /\ [][NextChunk]_vars

\* a call that can go on does go on
SpecChunkFair == Init /\ [][NextChunk]_vars /\ WF_vars(chunk_text_loop)

\* C38: for every text, every chunk size > 0 and every overlap with
\* 0 <= overlap < chunk size, chunk_text terminates, the start position
\* strictly advances from one chunk to the next, and the list returned is a
\* non-empty ordered list of substrings of the text, each of length at most
\* the chunk size.
C38_ChunkTerminates ==
    /\ (last.op = "chunk_text" /\ ~last.returned) ~> (last.op = "chunk_text" /\ last.returned)
    /\ [][(last.op = "chunk_text" /\ ~last.returned /\ ~last'.returned)
            => last'.start > last.start]_vars
    /\ []((last.op = "chunk_text" /\ last.returned) =>
            /\ last.chunks # <<>>
            /\ \A i \in 1..Len(last.chunks) :
                  /\ Len(last.chunks[i]) <= last.chunk_size
                  /\ last.chunks[i] = <<>> \/ Contains(last.text, last.chunks[i]))

(***************************************************************************)
(* Deletion (isolation specification).                                     *)
(***************************************************************************)
IdsOf(records) == {records[i].id : i \in 1..Len(records)}
Without(records, id) == SelectSeq(records, LAMBDA r : r.id # id)

\* C39: delete removes and is idempotent: a delete(id) that returns True
\* leaves the namespace without id and with every other record unchanged,
\* and other namespaces as they were; a delete of an id that is not present
\* changes nothing; an id that has left a namespace never comes back, a new
\* record taking an id never issued before; and get_by_id finds, and
\* retrieve returns, only ids the namespace holds -- so after the delete
\* get_by_id(id) is not-found and no later retrieve returns id.
C39_DeleteRemoves ==
    [][ /\ (last'.op = "delete" /\ last'.result = TRUE) =>
              LET name == NameOf(last'.identity)
              IN  /\ last'.id \notin IdsOf(collections'[name])
                  /\ collections'[name] = Without(collections[name], last'.id)
                  /\ \A other \in Names \ {name} : collections'[other] = collections[other]
                  /\ last'.id \notin IdsOf(collections[name]) => collections' = collections
        /\ \A name \in Names :
              \A id \in IdsOf(collections'[name]) \ IdsOf(collections[name]) :
                  id > Len(stored)
        /\ last'.op = "get_by_id" =>
              (last'.found <=> last'.id \in IdsOf(collections'[NameOf(last'.identity)]))
        /\ last'.op \in {"retrieve", "get_by_type"} =>
              \A i \in 1..Len(last'.result) :
                  last'.result[i].id \in IdsOf(collections'[NameOf(last'.identity)])
      ]_vars

\* a delete has returned True: the id is gone from its namespace, which
\* still holds another record
C39_Witness ==
    /\ last.op = "delete"
    /\ last.result = TRUE
    /\ Len(stored) >= 2
    /\ NameOf(stored[last.id].identity) = NameOf(last.identity)
    /\ last.id \notin IdsOf(Records(last.identity))
    /\ Len(Records(last.identity)) >= 1

====
